---- MODULE Spec2Model ----
(***************************************************************************)
(* Keyboard Maestro MCP server: getMachines and findMachine, the tool       *)
(* handlers list_macros, trigger_macro, trigger_macro_on_all,              *)
(* get_clipboard_result and trigger_and_capture, with listMacros,          *)
(* triggerMacro, fetchUrl, waitForFile and getClipboardResult, and the     *)
(* setup wizard handleConfigWizard, as state machines.                     *)
(*                                                                         *)
(* Strings of the program are TLA+ strings and a template string is the    *)
(* concatenation (\o) of its pieces.  File contents are byte sequences.    *)
(***************************************************************************)
EXTENDS Integers, Sequences, FiniteSets, TLC

(***************************************************************************)
(* Values                                                                  *)
(***************************************************************************)

\* JavaScript undefined, for optional string fields and arguments.
Undefined == "<undefined>"

\* An absent numeric argument (the optional delay of trigger_and_capture).
NoDelay == -1

\* !x for an optional string: undefined and the empty string are falsy.
Falsy(s) == s = Undefined \/ s = ""

SAVE_CLIPBOARD_MACRO_UID == "37EE527B-036A-42FC-B341-DFFF8D5AAA8A"

DefaultPort == 4490

\* waitForFile(path, 3000) in getClipboardResult, and its pollInterval.
CaptureTimeoutMs == 3000

PollIntervalMs == 100

\* delay ?? 500 in trigger_and_capture.
DefaultDelayMs == 500

\* The longest registry the fan-out is run on.
MaxMachines == 3

(***************************************************************************)
(* Machine registry                                                        *)
(***************************************************************************)

SharedDir == "/Users/me/KM MCP"

\* One record as getMachines builds it: every field present, secure and
\* saveClipboardMacroUid defaulted, outputDir copied as given (may be
\* undefined or empty).
MachineConfig(name, host, secure, outputDir, uid) ==
    [name |-> name, host |-> host, port |-> DefaultPort,
     username |-> "km", password |-> "secret", secure |-> secure,
     outputDir |-> outputDir,
     saveClipboardMacroUid |-> IF Falsy(uid) THEN SAVE_CLIPBOARD_MACRO_UID ELSE uid]

Studio == MachineConfig("Studio", "10.0.0.2", FALSE, SharedDir, Undefined)

Laptop == MachineConfig("Laptop", "10.0.0.3", TRUE, Undefined, Undefined)

Mini == MachineConfig("Mini", "10.0.0.4", FALSE, "", "CUSTOM-UID")

Tower == MachineConfig("Tower", "10.0.0.5", TRUE, SharedDir, "CUSTOM-UID")

\* String.prototype.toLowerCase on the names the model uses.
ToLowerCase(s) ==
    CASE s = "Studio" -> "studio"
      [] s = "STUDIO" -> "studio"
      [] s = "Flat" -> "flat"
      [] s = "Laptop" -> "laptop"
      [] s = "LAPTOP" -> "laptop"
      [] s = "Office" -> "office"
      [] s = "Mini" -> "mini"
      [] s = "Tower" -> "tower"
      [] s = "tOWER" -> "tower"
      [] OTHER -> s

\* Index of the first element of ms matching name, 0 when none
\* (Array.prototype.find).
RECURSIVE FindIndexFrom(_, _, _)
FindIndexFrom(ms, name, i) ==
    IF i > Len(ms) THEN 0
    ELSE IF ToLowerCase(ms[i].name) = ToLowerCase(name) THEN i
    ELSE FindIndexFrom(ms, name, i + 1)

\* findMachine: index of the selected machine, 0 for undefined.
findMachine(ms, name) ==
    IF Falsy(name)
    THEN (IF Len(ms) > 0 THEN 1 ELSE 0)
    ELSE FindIndexFrom(ms, name, 1)


(***************************************************************************)
(* Basic authentication                                                    *)
(***************************************************************************)

Base64Alphabet ==
    <<"A", "B", "C", "D", "E", "F", "G", "H", "I", "J", "K", "L", "M", "N", "O", "P",
      "Q", "R", "S", "T", "U", "V", "W", "X", "Y", "Z", "a", "b", "c", "d", "e", "f",
      "g", "h", "i", "j", "k", "l", "m", "n", "o", "p", "q", "r", "s", "t", "u", "v",
      "w", "x", "y", "z", "0", "1", "2", "3", "4", "5", "6", "7", "8", "9", "+", "/">>

B64(n) == Base64Alphabet[n + 1]

\* Buffer.prototype.toString("base64").
RECURSIVE Base64(_)
Base64(bytes) ==
    IF Len(bytes) = 0 THEN ""
    ELSE IF Len(bytes) = 1
    THEN B64(bytes[1] \div 4) \o B64((bytes[1] % 4) * 16) \o "=="
    ELSE IF Len(bytes) = 2
    THEN B64(bytes[1] \div 4) \o B64((bytes[1] % 4) * 16 + bytes[2] \div 16)
         \o B64((bytes[2] % 16) * 4) \o "="
    ELSE B64(bytes[1] \div 4) \o B64((bytes[1] % 4) * 16 + bytes[2] \div 16)
         \o B64((bytes[2] % 16) * 4 + bytes[3] \div 64) \o B64(bytes[3] % 64)
         \o Base64(SubSeq(bytes, 4, Len(bytes)))

\* Buffer.from(text): the UTF-8 bytes of the credential strings the model
\* uses.
Utf8Encode(s) ==
    CASE s = "km:secret" -> <<107, 109, 58, 115, 101, 99, 114, 101, 116>>
      [] s = "admin:pw" -> <<97, 100, 109, 105, 110, 58, 112, 119>>
      [] OTHER -> <<63>>

\* `Basic ${Buffer.from(`${username}:${password}`).toString("base64")}`
getAuthHeader(machine) ==
    "Basic " \o Base64(Utf8Encode(machine.username \o ":" \o machine.password))

\* getBaseUrl: http on port, or https on port + 1, by the secure flag.
getBaseUrl(machine) ==
    (IF machine.secure THEN "https" ELSE "http") \o "://" \o machine.host \o ":"
    \o ToString(IF machine.secure THEN machine.port + 1 ELSE machine.port)

(***************************************************************************)
(* triggerMacro                                                            *)
(***************************************************************************)

\* URLSearchParams.prototype.toString on one name or value
\* (application/x-www-form-urlencoded), for the strings the model uses:
\* a space becomes "+", "&" and "=" are percent-encoded, letters, digits
\* and "-" are kept.
FormEncode(s) ==
    CASE s = "Take Screenshot" -> "Take+Screenshot"
      [] s = "Lock Screen" -> "Lock+Screen"
      [] s = "a&b=c d" -> "a%26b%3Dc+d"
      [] OTHER -> s

\* params.toString(): macro always, value only when if (value) set it.
QueryString(macro, value) ==
    "macro=" \o FormEncode(macro)
    \o (IF Falsy(value) THEN "" ELSE "&value=" \o FormEncode(value))

\* The value set whenever it is not undefined, the empty string included.
TriggerRequestAnyValue(machine, macro, value) ==
    [scheme |-> "https", host |-> machine.host, port |-> machine.port + 1,
     path |-> "/authenticatedaction.html", macro |-> macro,
     value |-> value,
     url |-> "https://" \o machine.host \o ":" \o ToString(machine.port + 1)
             \o "/authenticatedaction.html?macro=" \o FormEncode(macro)
             \o (IF value = Undefined THEN "" ELSE "&value=" \o FormEncode(value)),
     authorization |-> getAuthHeader(machine),
     machine |-> machine.name]

\* The request triggerMacro sends: always https on port + 1.  macro and
\* value are the entries of params (value undefined: no entry).
TriggerRequest(machine, macro, value) ==
    [scheme |-> "https", host |-> machine.host, port |-> machine.port + 1,
     path |-> "/authenticatedaction.html", macro |-> macro,
     value |-> IF Falsy(value) THEN Undefined ELSE value,
     url |-> "https://" \o machine.host \o ":" \o ToString(machine.port + 1)
             \o "/authenticatedaction.html?" \o QueryString(macro, value),
     authorization |-> getAuthHeader(machine),
     machine |-> machine.name]

HttpStatuses == {200, 204, 401, 403, 500}

\* What fetch can do: resolve with a status and a body, or reject.
Responses ==
    [kind : {"http"}, status : HttpStatuses, body : {"", "42"}]
    \cup [kind : {"error"}, status : {0}, body : {"ECONNREFUSED"}]

\* The responses the capture handlers are run against: the body of a trigger
\* response is not read by them.
CaptureResponses == {r \in Responses : r.body \in {"", "ECONNREFUSED"}}

\* Only 200 taken for a success.
ResponseOkOnly200(resp) == resp.status = 200

\* response.ok: the status is in the range 200-299.
ResponseOk(resp) == resp.status >= 200 /\ resp.status <= 299

\* The outcome triggerMacro returns for a response (its try/catch included).
TriggerOutcome(machine, macro, resp) ==
    IF resp.kind = "error"
    THEN [success |-> FALSE,
          message |-> "Failed to connect to " \o machine.name \o " (" \o machine.host
                      \o ":" \o ToString(machine.port) \o "): " \o resp.body]
    ELSE IF ResponseOk(resp)
    THEN [success |-> TRUE,
          message |-> "Macro \"" \o macro \o "\" triggered successfully on "
                      \o machine.name,
          result |-> IF resp.body = "" THEN Undefined ELSE resp.body]
    ELSE IF resp.status = 401
    THEN [success |-> FALSE,
          message |-> "Authentication failed for " \o machine.name
                      \o ". Check username/password."]
    ELSE IF resp.status = 403
    THEN [success |-> FALSE,
          message |-> "Access denied for " \o machine.name
                      \o ". The macro may not exist or may not be enabled."]
    ELSE [success |-> FALSE,
          message |-> "Failed to trigger macro on " \o machine.name \o ": HTTP "
                      \o ToString(resp.status)]

(***************************************************************************)
(* Text of the catalog page                                                *)
(*                                                                         *)
(* Attribute values of the page are sequences of one-character strings, so *)
(* that the regular expressions of decodeHtmlEntities can be run on them.  *)
(***************************************************************************)

\* The characters of a sequence as one string.
RECURSIVE JoinChars(_)
JoinChars(cs) == IF Len(cs) = 0 THEN "" ELSE cs[1] \o JoinChars(Tail(cs))

\* Has cs the sequence pre at its front?
StartsWith(cs, pre) == Len(cs) >= Len(pre) /\ SubSeq(cs, 1, Len(pre)) = pre

WhiteSpace == {" ", "\t", "\n"}

RECURSIVE TrimStart(_)
TrimStart(cs) ==
    IF Len(cs) > 0 /\ cs[1] \in WhiteSpace THEN TrimStart(Tail(cs)) ELSE cs

RECURSIVE TrimEnd(_)
TrimEnd(cs) ==
    IF Len(cs) > 0 /\ cs[Len(cs)] \in WhiteSpace
    THEN TrimEnd(SubSeq(cs, 1, Len(cs) - 1)) ELSE cs

\* String.prototype.trim
Trim(cs) == TrimEnd(TrimStart(cs))

\* The value of a hexadecimal digit, -1 for any other character.
HexVal(c) ==
    CASE c = "0" -> 0 [] c = "1" -> 1 [] c = "2" -> 2 [] c = "3" -> 3 [] c = "4" -> 4
      [] c = "5" -> 5 [] c = "6" -> 6 [] c = "7" -> 7 [] c = "8" -> 8 [] c = "9" -> 9
      [] c \in {"a", "A"} -> 10 [] c \in {"b", "B"} -> 11 [] c \in {"c", "C"} -> 12
      [] c \in {"d", "D"} -> 13 [] c \in {"e", "E"} -> 14 [] c \in {"f", "F"} -> 15
      [] OTHER -> -1

\* Is c matched by \d (base 10) or by [0-9a-fA-F] (base 16)?
IsDigit(c, base) == HexVal(c) >= 0 /\ HexVal(c) < base

\* How many characters at the front of cs are digits of the base.
RECURSIVE DigitRun(_, _)
DigitRun(cs, base) ==
    IF Len(cs) > 0 /\ IsDigit(cs[1], base) THEN 1 + DigitRun(Tail(cs), base) ELSE 0

\* parseInt(code, base) on a run of digits.
RECURSIVE ParseInt(_, _)
ParseInt(ds, base) ==
    IF Len(ds) = 0 THEN 0
    ELSE ParseInt(SubSeq(ds, 1, Len(ds) - 1), base) * base + HexVal(ds[Len(ds)])

\* The largest code point; String.fromCodePoint throws a RangeError above it.
MaxCodePoint == 1114111

RangeError == "<RangeError>"

\* String.fromCodePoint on the code points the model's pages use.
FromCodePoint(n) ==
    IF n > MaxCodePoint THEN RangeError
    ELSE CASE n = 34 -> "\"" [] n = 35 -> "#" [] n = 38 -> "&" [] n = 39 -> "'"
           [] n = 59 -> ";" [] n = 60 -> "<" [] n = 62 -> ">" [] n = 65 -> "A"
           [] n = 120 -> "x" [] OTHER -> "\\u" \o ToString(n)

\* text.replace(/&#(\d+);/g, ...) with lead = <<"&", "#">> and base 10,
\* text.replace(/&#x([0-9a-fA-F]+);/g, ...) with lead = <<"&", "#", "x">>
\* and base 16: matches are taken left to right and the replacement text is
\* not scanned again.
RECURSIVE ReplaceNumeric(_, _, _)
ReplaceNumeric(cs, lead, base) ==
    IF Len(cs) = 0 THEN <<>>
    ELSE LET k == Len(lead)
             n == IF Len(cs) > k /\ SubSeq(cs, 1, k) = lead
                  THEN DigitRun(SubSeq(cs, k + 1, Len(cs)), base) ELSE 0
         IN IF n > 0 /\ Len(cs) > k + n /\ cs[k + n + 1] = ";"
            THEN <<FromCodePoint(ParseInt(SubSeq(cs, k + 1, k + n), base))>>
                 \o ReplaceNumeric(SubSeq(cs, k + n + 2, Len(cs)), lead, base)
            ELSE <<cs[1]>> \o ReplaceNumeric(Tail(cs), lead, base)

\* text.replace(/pat/g, rep) for a literal pattern.
RECURSIVE ReplaceAll(_, _, _)
ReplaceAll(cs, pat, rep) ==
    IF Len(cs) = 0 THEN <<>>
    ELSE IF Len(cs) >= Len(pat) /\ SubSeq(cs, 1, Len(pat)) = pat
    THEN rep \o ReplaceAll(SubSeq(cs, Len(pat) + 1, Len(cs)), pat, rep)
    ELSE <<cs[1]>> \o ReplaceAll(Tail(cs), pat, rep)

\* decodeHtmlEntities: the seven replacements, each run on the result of the
\* one before it.
decodeHtmlEntities(text) ==
    LET dec  == ReplaceNumeric(text, <<"&", "#">>, 10)
        hex  == ReplaceNumeric(dec, <<"&", "#", "x">>, 16)
        amp  == ReplaceAll(hex, <<"&", "a", "m", "p", ";">>, <<"&">>)
        lt   == ReplaceAll(amp, <<"&", "l", "t", ";">>, <<"<">>)
        gt   == ReplaceAll(lt, <<"&", "g", "t", ";">>, <<">">>)
        quot == ReplaceAll(gt, <<"&", "q", "u", "o", "t", ";">>, <<"\"">>)
    IN ReplaceAll(quot, <<"&", "a", "p", "o", "s", ";">>, <<"'">>)

\* Did a String.fromCodePoint call of decodeHtmlEntities throw?
DecodeThrows(text) ==
    LET dec == ReplaceNumeric(text, <<"&", "#">>, 10)
        hex == ReplaceNumeric(dec, <<"&", "#", "x">>, 16)
    IN \/ \E i \in 1..Len(dec) : dec[i] = RangeError
       \/ \E i \in 1..Len(hex) : hex[i] = RangeError

(***************************************************************************)
(* listMacros                                                              *)
(*                                                                         *)
(* A page is the sequence of its tags, each a record of the tag name t and *)
(* the attributes the tag carries (an attribute the tag lacks is no field  *)
(* of the record).  Tag and attribute names are lower-case, an option's    *)
(* label attribute precedes its value attribute, and no attribute value    *)
(* holds a ">" or a double quote, so that each regular expression of       *)
(* listMacros matches tag by tag.                                          *)
(***************************************************************************)

Has(tag, attr) == attr \in DOMAIN tag

MinOf(S) == CHOOSE x \in S : \A y \in S : x <= y

\* Indexes after i of the closing tags named t.
ClosersAfter(html, i, t) == {j \in (i + 1)..Len(html) : html[j].t = t}

\* html.match(/<form[^>]*action="authenticatedaction\.html"[^>]*>[\s\S]*?<\/form>/i):
\* the first such form up to the first </form> after it; the whole page
\* when there is no match.
HtmlToParse(html) ==
    LET starts == {i \in 1..Len(html) :
                     /\ html[i].t = "form"
                     /\ Has(html[i], "action")
                     /\ html[i].action = "authenticatedaction.html"
                     /\ ClosersAfter(html, i, "/form") # {}}
    IN IF starts = {} THEN html
       ELSE SubSeq(html, MinOf(starts), MinOf(ClosersAfter(html, MinOf(starts), "/form")))

\* The matches of optgroupRegex from index pos on: the label and the
\* content of every <optgroup label="..."> ... </optgroup>, the content
\* ending at the first </optgroup>.
RECURSIVE GroupMatches(_, _)
GroupMatches(html, pos) ==
    LET starts == {i \in pos..Len(html) :
                     /\ html[i].t = "optgroup"
                     /\ Has(html[i], "label")
                     /\ ClosersAfter(html, i, "/optgroup") # {}}
    IN IF starts = {} THEN <<>>
       ELSE LET i == MinOf(starts)
                j == MinOf(ClosersAfter(html, i, "/optgroup"))
            IN <<[label |-> html[i].label, content |-> SubSeq(html, i + 1, j - 1)]>>
               \o GroupMatches(html, j + 1)

\* The matches of optionRegex in the content of a group: the option tags
\* that carry a label and a value.
OptionMatches(content) ==
    SelectSeq(content, LAMBDA tag : tag.t = "option" /\ Has(tag, "label") /\ Has(tag, "value"))

\* The inner loop without its test: every matched option gives an entry.
RECURSIVE GroupEntriesKeepEmpty(_, _)
GroupEntriesKeepEmpty(options, groupName) ==
    IF Len(options) = 0 THEN <<>>
    ELSE <<[name |-> decodeHtmlEntities(Trim(options[1].label)),
            uid |-> options[1].value, group |-> groupName]>>
         \o GroupEntriesKeepEmpty(Tail(options), groupName)

\* The inner loop: one entry per matched option, kept if (name && uid); name
\* and group are kept as character sequences.
RECURSIVE GroupEntries(_, _)
GroupEntries(options, groupName) ==
    IF Len(options) = 0 THEN <<>>
    ELSE LET name == decodeHtmlEntities(Trim(options[1].label))
             uid == options[1].value
         IN (IF Len(name) > 0 /\ uid # ""
             THEN <<[name |-> name, uid |-> uid, group |-> groupName]>>
             ELSE <<>>)
            \o GroupEntries(Tail(options), groupName)

\* The outer loop over the group matches.
RECURSIVE CatalogEntries(_)
CatalogEntries(groups) ==
    IF Len(groups) = 0 THEN <<>>
    ELSE GroupEntries(OptionMatches(groups[1].content),
                      decodeHtmlEntities(Trim(groups[1].label)))
         \o CatalogEntries(Tail(groups))

\* Does a decodeHtmlEntities call of the two loops throw?
ParseThrows(html) ==
    LET groups == GroupMatches(HtmlToParse(html), 1) IN
    \E g \in 1..Len(groups) :
        \/ DecodeThrows(Trim(groups[g].label))
        \/ \E o \in 1..Len(OptionMatches(groups[g].content)) :
               DecodeThrows(Trim(OptionMatches(groups[g].content)[o].label))

\* The macros listMacros extracts from a page.
ParseMacros(html) == CatalogEntries(GroupMatches(HtmlToParse(html), 1))

\* error.message of the RangeError of String.fromCodePoint(1114112), the one
\* out-of-range reference the pages of the model hold.
InvalidCodePointMessage == "Invalid code point 1114112"

\* The catalog request built on getBaseUrl: plaintext for a machine that is
\* not secure.
ListRequestByFlag(machine) ==
    [scheme |-> IF machine.secure THEN "https" ELSE "http", host |-> machine.host,
     port |-> IF machine.secure THEN machine.port + 1 ELSE machine.port,
     path |-> "/authenticated.html",
     url |-> getBaseUrl(machine) \o "/authenticated.html",
     authorization |-> getAuthHeader(machine),
     machine |-> machine.name]

\* The request listMacros sends: always https on port + 1.
ListRequest(machine) ==
    [scheme |-> "https", host |-> machine.host, port |-> machine.port + 1,
     path |-> "/authenticated.html",
     url |-> "https://" \o machine.host \o ":" \o ToString(machine.port + 1)
             \o "/authenticated.html",
     authorization |-> getAuthHeader(machine),
     machine |-> machine.name]

\* The catch block of listMacros and of triggerMacro.
ConnectFailure(machine, message) ==
    [success |-> FALSE,
     message |-> "Failed to connect to " \o machine.name \o " (" \o machine.host
                 \o ":" \o ToString(machine.port) \o "): " \o message]

\* The outcome listMacros returns for a response (its try/catch included);
\* the body of an http response is a page.
ListOutcome(machine, resp) ==
    IF resp.kind = "error" THEN ConnectFailure(machine, resp.body)
    ELSE IF ~ResponseOk(resp)
    THEN IF resp.status = 401
         THEN [success |-> FALSE,
               message |-> "Authentication failed for " \o machine.name
                           \o ". Check username/password."]
         ELSE [success |-> FALSE,
               message |-> "Failed to fetch macros from " \o machine.name \o ": HTTP "
                           \o ToString(resp.status)]
    ELSE IF ParseThrows(resp.body) THEN ConnectFailure(machine, InvalidCodePointMessage)
    ELSE [success |-> TRUE, macros |-> ParseMacros(resp.body)]

(***************************************************************************)
(* Files of the shared folder                                              *)
(***************************************************************************)

\* randomUUID().slice(0, 8): the tokens a run can draw.
Tokens == {"1f0c9a2e", "7b3d5e88"}

\* join(outputDir, `clipsav_${requestId}.txt`) and the .png path.
TextPath(outputDir, requestId) == outputDir \o "/" \o "clipsav_" \o requestId \o ".txt"

ImagePath(outputDir, requestId) == outputDir \o "/" \o "clipsav_" \o requestId \o ".png"

Waiters == {"text", "image"}

PathOf(w, outputDir, requestId) ==
    IF w = "text" THEN TextPath(outputDir, requestId) ELSE ImagePath(outputDir, requestId)

AllPaths == {PathOf(w, SharedDir, t) : w \in Waiters, t \in Tokens}

\* The token a path of the shared folder was written for.
TokenOfPath(p) == CHOOSE t \in Tokens : \E w \in Waiters : PathOf(w, SharedDir, t) = p

\* Contents the remote host writes: PNG bytes, UTF-8 text bytes.
ImageContents == {<<137, 80, 78, 71, 13>>}

TextContents == {<<104, 105, 195>>}

ContentsFor(p) ==
    IF \E t \in Tokens : p = ImagePath(SharedDir, t) THEN ImageContents ELSE TextContents

AbsentFile == [state |-> "absent", data |-> <<>>]

\* One byte of a UTF-8 text of ASCII bytes; a byte that is no character of
\* its own decodes to U+FFFD.
Utf8Char(b) ==
    IF b >= 128 THEN "\\uFFFD"
    ELSE CASE b = 104 -> "h" [] b = 105 -> "i" [] OTHER -> "?"

\* readFile(path, "utf-8").
RECURSIVE Utf8Decode(_)
Utf8Decode(bytes) ==
    IF Len(bytes) = 0 THEN ""
    ELSE Utf8Char(bytes[1]) \o Utf8Decode(Tail(bytes))

(***************************************************************************)
(* waitForFile and getClipboardResult                                      *)
(***************************************************************************)

\* The early return left out: a failed trigger is taken for a success.
TriggerFailedIgnored(triggerResult) == FALSE

\* if (!triggerResult.success): the early return of both callers of triggerMacro.
TriggerFailed(triggerResult) == ~triggerResult.success

\* The deadline taken from the clock's origin instead of startTime.
WaitContinuesAbsolute(t, startTime, timeoutMs) == t < timeoutMs

\* The loop condition of waitForFile: Date.now() - startTime < timeoutMs.
WaitContinues(t, startTime, timeoutMs) == t - startTime < timeoutMs

\* The top of the while loop of waitForFile(path, 3000), run without a pause
\* up to its await: access() is called, or the loop is left with false.
LoopTop(t, startTime) ==
    IF WaitContinues(t, startTime, CaptureTimeoutMs) THEN "access" ELSE "done"

\* access(filePath, constants.R_OK) resolves.
Accessible(file) == file.state = "readable"

\* The guard on the macro id instead of the folder.
NotConfiguredByMacro(machine) == Falsy(machine.saveClipboardMacroUid)

\* The guard of getClipboardResult: !machine.outputDir.
NotConfigured(machine) == Falsy(machine.outputDir)

ConfigMissingInstructions ==
    "\n\nTo enable clipboard capture, run the setup wizard:\n  setup_wizard with action=\"start\""
    \o "\n\nThe wizard will:\n1. Generate the required Keyboard Maestro macros"
    \o "\n2. Guide you through importing them"
    \o "\n3. Help you configure the outputDir setting"
    \o "\n\nOr manually configure:"
    \o "\n1. Set \"outputDir\" in your machine config to the folder where clipboard files are saved"
    \o "\n2. Make sure the \"Keyboard Maestro MCP\" macro group is installed in Keyboard Maestro"

ConfigMissingMessage(machine) ==
    "Clipboard capture not configured for machine \"" \o machine.name \o "\"."
    \o ConfigMissingInstructions

ConfigMissingResult(machine) ==
    [success |-> FALSE, message |-> ConfigMissingMessage(machine)]

\* machine.saveClipboardMacroUid || SAVE_CLIPBOARD_MACRO_UID.
ExportMacro(machine) ==
    IF Falsy(machine.saveClipboardMacroUid) THEN SAVE_CLIPBOARD_MACRO_UID
    ELSE machine.saveClipboardMacroUid

\* The export trigger given a token of its own, drawn a second time.
ExportRequestSecondToken(machine, requestId) ==
    TriggerRequest(machine, ExportMacro(machine),
                   CHOOSE t \in Tokens : t # requestId)

\* The request of triggerMacro(machine, macroUid, requestId).
ExportRequest(machine, requestId) ==
    TriggerRequest(machine, ExportMacro(machine), requestId)

CapturePrefix == "Failed to trigger Save Clipboard macro: "

\* The trigger's message dropped from the failure.
ExportFailedGeneric(triggerResult) ==
    [success |-> FALSE, message |-> CapturePrefix \o "trigger failed"]

ExportFailedResult(triggerResult) ==
    [success |-> FALSE, message |-> CapturePrefix \o triggerResult.message]

\* The text branch tested first.
FileToReadTextFirst(textExists, imageExists) ==
    IF textExists THEN "text" ELSE IF imageExists THEN "image" ELSE "none"

\* What getClipboardResult does once Promise.all has both answers: the file
\* it reads, "none" for the timeout.
FileToRead(textExists, imageExists) ==
    IF imageExists THEN "image" ELSE IF textExists THEN "text" ELSE "none"

TimeoutResult(textPath, imagePath) ==
    [success |-> FALSE,
     message |-> "Clipboard save file not found. Expected: " \o textPath \o " or "
                 \o imagePath
                 \o ". Make sure the \"Save Clipboard to File\" macro is installed and the outputDir is configured correctly."]

\* error.message of a readFile that fails.
ReadErrorText == "EACCES: permission denied"

ReadImageOk(path, data) ==
    [success |-> TRUE, message |-> "Clipboard image retrieved successfully",
     type |-> "image", content |-> Base64(data), filePath |-> path]

ReadTextOk(path, data) ==
    [success |-> TRUE, message |-> "Clipboard text retrieved successfully",
     type |-> "text", content |-> Utf8Decode(data), filePath |-> path]

ReadFailed(kind) ==
    [success |-> FALSE, message |-> "Failed to read " \o kind \o " file: " \o ReadErrorText]

\* The image bytes returned as text, without the base64 encoding.
ReadResultUnencoded(kind, path, file) ==
    IF file.state # "readable" THEN ReadFailed(kind)
    ELSE IF kind = "image"
    THEN [success |-> TRUE, message |-> "Clipboard image retrieved successfully",
          type |-> "image", content |-> Utf8Decode(file.data), filePath |-> path]
    ELSE ReadTextOk(path, file.data)

\* A failed read reported as the file not having been found.
ReadResultAsMissing(kind, path, file) ==
    IF file.state # "readable" THEN TimeoutResult(path, path)
    ELSE IF kind = "image" THEN ReadImageOk(path, file.data)
    ELSE ReadTextOk(path, file.data)

\* The result of the try/catch around readFile, for the file kind read.
ReadResult(kind, path, file) ==
    IF file.state # "readable" THEN ReadFailed(kind)
    ELSE IF kind = "image" THEN ReadImageOk(path, file.data)
    ELSE ReadTextOk(path, file.data)

(***************************************************************************)
(* Tool results                                                            *)
(***************************************************************************)

TextItem(text) == [type |-> "text", text |-> text]

ImageItem(data) == [type |-> "image", data |-> data, mimeType |-> "image/png"]

ErrorResult(text) == [content |-> <<TextItem(text)>>, isError |-> TRUE]

\* machines.map((m) => m.name).join(", ")
RECURSIVE JoinNames(_)
JoinNames(ms) ==
    IF Len(ms) = 0 THEN ""
    ELSE IF Len(ms) = 1 THEN ms[1].name
    ELSE ms[1].name \o ", " \o JoinNames(Tail(ms))

\* The handlers' answer when findMachine returns undefined.
NotFoundResult(ms, machineName) ==
    ErrorResult(IF Falsy(machineName)
                THEN "No machines configured. Set KM_MACHINES environment variable."
                ELSE "Machine \"" \o machineName \o "\" not found. Available machines: "
                     \o (IF JoinNames(ms) = "" THEN "none configured" ELSE JoinNames(ms)))

\* get_clipboard_result: the tool result for a getClipboardResult result.
ClipboardToolResult(r) ==
    IF ~r.success THEN ErrorResult(r.message)
    ELSE IF r.type = "image"
    THEN [content |-> <<ImageItem(r.content), TextItem("Image saved to: " \o r.filePath)>>]
    ELSE [content |-> <<TextItem(r.content),
                        TextItem("\n---\nSaved to: " \o r.filePath)>>]

TargetFailedResult(triggerResult) ==
    ErrorResult("Failed to trigger macro: " \o triggerResult.message)

CaptureFailedPrefix == "Macro triggered successfully, but clipboard capture failed: "

\* trigger_and_capture: the tool result for a getClipboardResult result.
CaptureToolResult(macro, r) ==
    IF ~r.success THEN ErrorResult(CaptureFailedPrefix \o r.message)
    ELSE IF r.type = "image"
    THEN [content |-> <<TextItem("Macro \"" \o macro
                                 \o "\" executed. Clipboard contained an image:"),
                        ImageItem(r.content)>>]
    ELSE [content |-> <<TextItem("Macro \"" \o macro
                                 \o "\" executed. Clipboard contents:\n\n" \o r.content)>>]

ToolResult(c, r) ==
    IF c.tool = "trigger_and_capture" THEN CaptureToolResult(c.macro, r)
    ELSE ClipboardToolResult(r)

\* delay || 500: a delay of 0 takes the default as well.
WaitTimeZeroDefaulted(delay) == IF delay = NoDelay \/ delay = 0 THEN DefaultDelayMs ELSE delay

\* const waitTime = delay ?? 500
WaitTime(delay) == IF delay = NoDelay THEN DefaultDelayMs ELSE delay

(***************************************************************************)
(* State                                                                   *)
(***************************************************************************)

VARIABLES
    machines,    \* the registry main() loaded with getMachines()
    call,        \* the tool call being served: tool name and arguments
    pc,          \* where the handler is
    netlog,      \* the requests sent with fetch, in order
    now,         \* Date.now(), in ms since the call arrived
    timerAt,     \* when the settle delay of trigger_and_capture ends
    requestId,   \* the token of this getClipboardResult run
    fs,          \* the files of the shared folder, by path
    wpc,         \* the await each waitForFile call is at
    wstart,      \* startTime of each waitForFile call
    wwake,       \* when the poll sleep of each waitForFile call ends
    wfound,      \* the value each waitForFile call returned
    polled,      \* the paths access() was called on
    reads,       \* readFile() calls made: the paths, in order
    targetResult,\* trigger_macro, trigger_and_capture: what triggerMacro returned
    exportResult,\* getClipboardResult: what its triggerMacro call returned
    clip,        \* what getClipboardResult returned
    result,      \* what the tool handler returned
    outcomes,    \* fan-out: the settled triggerMacro promises, by index
    completed,   \* fan-out: the indexes in the order their calls completed
    received,    \* list_macros, trigger_macro, fetchUrl: what their fetch settled with
    environ,     \* process.env as main() finds it (None where the registry is given)
    listed,      \* list_macros: what listMacros returned
    wizardStates,\* the wizardStates map: the WizardState of each session id
    wizardCalls, \* handleConfigWizard: the generate calls awaiting mkdir or writeFile
    wizardReply, \* handleConfigWizard: the call that returned last, with its result
    wizardPast   \* the set_path and generate calls that succeeded, by session

vars ==
    <<machines, call, pc, netlog, now, timerAt, requestId, fs, wpc, wstart, wwake,
      wfound, polled, reads, targetResult, exportResult, clip, result, outcomes,
      completed, received, environ, listed, wizardStates, wizardCalls, wizardReply,
      wizardPast>>

captureVars ==
    <<now, timerAt, requestId, fs, wpc, wstart, wwake, wfound, polled, reads, targetResult,
      exportResult, clip>>

waitVars == <<wpc, wstart, wwake, wfound, polled>>

fanVars == <<outcomes, completed>>

wizardVars == <<wizardStates, wizardCalls, wizardReply, wizardPast>>

\* No value yet (a promise not settled, a handler that has not returned).
None == [none |-> TRUE]

Selected == machines[findMachine(machines, call.machine)]

CaptureIdle ==
    /\ now = 0
    /\ timerAt = 0
    /\ requestId = Undefined
    /\ fs = [p \in AllPaths |-> AbsentFile]
    /\ wpc = [w \in Waiters |-> "idle"]
    /\ wstart = [w \in Waiters |-> 0]
    /\ wwake = [w \in Waiters |-> 0]
    /\ wfound = [w \in Waiters |-> FALSE]
    /\ polled = {}
    /\ reads = <<>>
    /\ targetResult = None
    /\ exportResult = None
    /\ clip = None

FanIdle ==
    /\ outcomes = <<>>
    /\ completed = <<>>

\* No wizard session was started.
WizardIdle ==
    /\ wizardStates = <<>>
    /\ wizardCalls = {}
    /\ wizardReply = None
    /\ wizardPast = {}

(***************************************************************************)
(* get_clipboard_result and trigger_and_capture                            *)
(***************************************************************************)

\* Registries getMachines can return.
CaptureRegistries == {<<>>, <<Studio, Laptop>>, <<Mini, Tower>>}

CaptureCalls ==
    [tool : {"get_clipboard_result"}, machine : {Undefined, "LAPTOP", "tOWER", "Ghost"},
     macro : {Undefined}, value : {Undefined}, delay : {NoDelay}]
    \cup [tool : {"trigger_and_capture"}, machine : {Undefined, "LAPTOP", "Ghost"},
          macro : {"Take Screenshot"}, value : {"front"}, delay : {NoDelay, 0, 200}]

CaptureInit ==
    /\ machines \in CaptureRegistries
    /\ call \in CaptureCalls
    /\ pc = "start"
    /\ netlog = <<>>
    /\ result = None
    /\ CaptureIdle
    /\ FanIdle
    /\ received = None
    /\ environ = None
    /\ listed = None
    /\ WizardIdle

\* Tokens no file of the folder carries yet.
FreshTokens == {t \in Tokens : \A w \in Waiters : fs[PathOf(w, SharedDir, t)].state = "absent"}

\* The handler returns r.
Return(r) ==
    /\ result' = r
    /\ pc' = "done"

\* The export trigger sent before the configuration is looked at.
EnterCaptureCheckLate(machine) ==
    /\ \E t \in FreshTokens :
         /\ requestId' = t
         /\ netlog' = Append(netlog, ExportRequest(machine, t))
    /\ IF NotConfigured(machine)
       THEN /\ clip' = ConfigMissingResult(machine)
            /\ Return(ToolResult(call, clip'))
       ELSE /\ pc' = "export_wait"
            /\ UNCHANGED <<clip, result>>

\* getClipboardResult(machine) up to its first await: the configuration
\* check, then the token and the export trigger request.
EnterCapture(machine) ==
    IF NotConfigured(machine)
    THEN /\ clip' = ConfigMissingResult(machine)
         /\ Return(ToolResult(call, clip'))
         /\ UNCHANGED <<netlog, requestId>>
    ELSE /\ \E t \in FreshTokens :
              /\ requestId' = t
              /\ netlog' = Append(netlog, ExportRequest(machine, t))
         /\ pc' = "export_wait"
         /\ UNCHANGED <<clip, result>>

\* Either handler: findMachine returned undefined.
MachineNotFound ==
    /\ pc = "start"
    /\ findMachine(machines, call.machine) = 0
    /\ Return(NotFoundResult(machines, call.machine))
    /\ UNCHANGED <<machines, call, netlog>>
    /\ UNCHANGED captureVars
    /\ UNCHANGED fanVars
    /\ UNCHANGED received
    /\ UNCHANGED environ
    /\ UNCHANGED listed
    /\ UNCHANGED wizardVars

\* get_clipboard_result: getClipboardResult(machine) is called at once.
GetClipboardStart ==
    /\ pc = "start"
    /\ call.tool = "get_clipboard_result"
    /\ findMachine(machines, call.machine) # 0
    /\ EnterCapture(Selected)
    /\ UNCHANGED <<machines, call, now, timerAt, fs, reads, targetResult, exportResult>>
    /\ UNCHANGED waitVars
    /\ UNCHANGED fanVars
    /\ UNCHANGED received
    /\ UNCHANGED environ
    /\ UNCHANGED listed
    /\ UNCHANGED wizardVars

\* trigger_and_capture: triggerMacro(machine, macro, value) is called first.
TargetTrigger ==
    /\ pc = "start"
    /\ call.tool = "trigger_and_capture"
    /\ findMachine(machines, call.machine) # 0
    /\ netlog' = Append(netlog, TriggerRequest(Selected, call.macro, call.value))
    /\ pc' = "target_wait"
    /\ UNCHANGED <<machines, call, result>>
    /\ UNCHANGED captureVars
    /\ UNCHANGED fanVars
    /\ UNCHANGED received
    /\ UNCHANGED environ
    /\ UNCHANGED listed
    /\ UNCHANGED wizardVars

\* trigger_and_capture: the target trigger settles; a failure is returned,
\* a success starts the settle delay.
TargetResponse ==
    /\ pc = "target_wait"
    /\ \E resp \in CaptureResponses :
         LET triggerResult == TriggerOutcome(Selected, call.macro, resp) IN
         /\ targetResult' = triggerResult
         /\ IF TriggerFailed(triggerResult)
            THEN /\ Return(TargetFailedResult(triggerResult))
                 /\ UNCHANGED timerAt
            ELSE /\ timerAt' = now + WaitTime(call.delay)
                 /\ pc' = "settle"
                 /\ UNCHANGED result
    /\ UNCHANGED <<machines, call, netlog, now, requestId, fs, reads, exportResult, clip>>
    /\ UNCHANGED waitVars
    /\ UNCHANGED fanVars
    /\ UNCHANGED received
    /\ UNCHANGED environ
    /\ UNCHANGED listed
    /\ UNCHANGED wizardVars

\* trigger_and_capture: the settle timer fired; getClipboardResult is called.
SettleDone ==
    /\ pc = "settle"
    /\ now >= timerAt
    /\ EnterCapture(Selected)
    /\ UNCHANGED <<machines, call, now, timerAt, fs, reads, targetResult, exportResult>>
    /\ UNCHANGED waitVars
    /\ UNCHANGED fanVars
    /\ UNCHANGED received
    /\ UNCHANGED environ
    /\ UNCHANGED listed
    /\ UNCHANGED wizardVars

\* getClipboardResult: the export trigger settles; a failure is returned,
\* a success starts both waitForFile calls, each up to its first access().
ExportResponse ==
    /\ pc = "export_wait"
    /\ \E resp \in CaptureResponses :
         LET triggerResult == TriggerOutcome(Selected, ExportMacro(Selected), resp) IN
         /\ exportResult' = triggerResult
         /\ IF TriggerFailed(triggerResult)
            THEN /\ clip' = ExportFailedResult(triggerResult)
                 /\ Return(ToolResult(call, clip'))
                 /\ UNCHANGED <<wpc, wstart>>
            ELSE /\ wpc' = [w \in Waiters |-> LoopTop(now, now)]
                 /\ wstart' = [w \in Waiters |-> now]
                 /\ pc' = "polling"
                 /\ UNCHANGED <<clip, result>>
    /\ UNCHANGED <<machines, call, netlog, now, timerAt, requestId, fs, reads, targetResult>>
    /\ UNCHANGED <<wwake, wfound, polled>>
    /\ UNCHANGED fanVars
    /\ UNCHANGED received
    /\ UNCHANGED environ
    /\ UNCHANGED listed
    /\ UNCHANGED wizardVars

\* One file name for every run: the path is built from a fixed token.
SharedPath(w) == PathOf(w, Selected.outputDir, CHOOSE t \in Tokens : TRUE)

\* The path a waitForFile call of this run polls: built from the run's
\* requestId.
OwnPath(w) == PathOf(w, Selected.outputDir, requestId)

\* waitForFile: access() settles; found, or sleep for pollInterval.
AccessSettles(w) ==
    /\ pc = "polling"
    /\ wpc[w] = "access"
    /\ polled' = polled \cup {OwnPath(w)}
    /\ IF Accessible(fs[OwnPath(w)])
       THEN /\ wfound' = [wfound EXCEPT ![w] = TRUE]
            /\ wpc' = [wpc EXCEPT ![w] = "done"]
            /\ UNCHANGED wwake
       ELSE /\ wwake' = [wwake EXCEPT ![w] = now + PollIntervalMs]
            /\ wpc' = [wpc EXCEPT ![w] = "sleep"]
            /\ UNCHANGED wfound
    /\ UNCHANGED <<machines, call, pc, netlog, now, timerAt, requestId, fs, reads, targetResult, exportResult,
                   clip, result>>
    /\ UNCHANGED wstart
    /\ UNCHANGED fanVars
    /\ UNCHANGED received
    /\ UNCHANGED environ
    /\ UNCHANGED listed
    /\ UNCHANGED wizardVars

\* waitForFile: the poll timer fired and the loop goes round.
SleepEnds(w) ==
    /\ pc = "polling"
    /\ wpc[w] = "sleep"
    /\ now >= wwake[w]
    /\ wpc' = [wpc EXCEPT ![w] = LoopTop(now, wstart[w])]
    /\ wwake' = [wwake EXCEPT ![w] = 0]
    /\ UNCHANGED <<machines, call, pc, netlog, now, timerAt, requestId, fs, reads, targetResult, exportResult,
                   clip, result>>
    /\ UNCHANGED <<wstart, wfound, polled>>
    /\ UNCHANGED fanVars
    /\ UNCHANGED received
    /\ UNCHANGED environ
    /\ UNCHANGED listed
    /\ UNCHANGED wizardVars

\* getClipboardResult: Promise.all settled with both answers; the image is
\* read if found, else the text if found, else the timeout is returned.
PollJoin ==
    /\ pc = "polling"
    /\ \A w \in Waiters : wpc[w] = "done"
    /\ LET kind == FileToRead(wfound["text"], wfound["image"]) IN
       IF kind = "none"
       THEN /\ clip' = TimeoutResult(OwnPath("text"), OwnPath("image"))
            /\ Return(ToolResult(call, clip'))
            /\ UNCHANGED reads
       ELSE /\ reads' = Append(reads, OwnPath(kind))
            /\ pc' = "reading"
            /\ UNCHANGED <<clip, result>>
    /\ UNCHANGED <<machines, call, netlog, now, timerAt, requestId, fs, targetResult, exportResult>>
    /\ UNCHANGED waitVars
    /\ UNCHANGED fanVars
    /\ UNCHANGED received
    /\ UNCHANGED environ
    /\ UNCHANGED listed
    /\ UNCHANGED wizardVars

\* The file kind of the readFile call in flight.
ReadingKind == IF reads[Len(reads)] = OwnPath("image") THEN "image" ELSE "text"

\* getClipboardResult: readFile settles; its content or its error is returned.
ReadSettles ==
    /\ pc = "reading"
    /\ clip' = ReadResult(ReadingKind, reads[Len(reads)], fs[reads[Len(reads)]])
    /\ Return(ToolResult(call, clip'))
    /\ UNCHANGED <<machines, call, netlog, now, timerAt, requestId, fs, reads, targetResult,
                   exportResult>>
    /\ UNCHANGED waitVars
    /\ UNCHANGED fanVars
    /\ UNCHANGED received
    /\ UNCHANGED environ
    /\ UNCHANGED listed
    /\ UNCHANGED wizardVars

\* How late a timer can fire: on time, or one poll interval late.
Lateness == {0, PollIntervalMs}

\* Time passes until the settle timer is due.
SettleTimePasses ==
    /\ pc = "settle"
    /\ now < timerAt
    /\ \E late \in Lateness : now' = timerAt + late
    /\ UNCHANGED <<machines, call, pc, netlog, timerAt, requestId, fs, reads, targetResult, exportResult,
                   clip, result>>
    /\ UNCHANGED waitVars
    /\ UNCHANGED fanVars
    /\ UNCHANGED received
    /\ UNCHANGED environ
    /\ UNCHANGED listed
    /\ UNCHANGED wizardVars

Sleeping == {w \in Waiters : wpc[w] = "sleep"}

NextWake == CHOOSE t \in {wwake[w] : w \in Sleeping} : \A w \in Sleeping : t <= wwake[w]

\* Time passes while every waitForFile call still running sleeps.
PollTimePasses ==
    /\ pc = "polling"
    /\ Sleeping # {}
    /\ \A w \in Waiters : wpc[w] \in {"sleep", "done"}
    /\ \A w \in Sleeping : now < wwake[w]
    /\ \E late \in Lateness : now' = NextWake + late
    /\ UNCHANGED <<machines, call, pc, netlog, timerAt, requestId, fs, reads, targetResult, exportResult,
                   clip, result>>
    /\ UNCHANGED waitVars
    /\ UNCHANGED fanVars
    /\ UNCHANGED received
    /\ UNCHANGED environ
    /\ UNCHANGED listed
    /\ UNCHANGED wizardVars

\* The polling window of this run is open: the export trigger is sent and
\* the deadline of the waitForFile calls has not passed.
WindowOpen ==
    \/ pc = "export_wait"
    \/ pc = "polling" /\ \E w \in Waiters : now - wstart[w] < CaptureTimeoutMs

\* The remote host writes a file: one named by the value of an export
\* trigger this run sent, while the polling window is open (a later file
\* is never looked at), or the one file of another run's token.
RemoteWrites(p) ==
    /\ pc \in {"export_wait", "polling", "reading"}
    /\ fs[p].state = "absent"
    /\ \/ /\ TokenOfPath(p) # requestId
          /\ \A q \in AllPaths : TokenOfPath(q) = TokenOfPath(p) => fs[q].state = "absent"
       \/ WindowOpen /\ \E i \in 1..Len(netlog) : netlog[i].value = TokenOfPath(p)
    /\ \E data \in ContentsFor(p) :
         /\ TokenOfPath(p) # requestId => data = CHOOSE d \in ContentsFor(p) : TRUE
         /\ fs' = [fs EXCEPT ![p] = [state |-> "readable", data |-> data]]
    /\ UNCHANGED <<machines, call, pc, netlog, now, timerAt, requestId, reads, targetResult, exportResult,
                   clip, result>>
    /\ UNCHANGED waitVars
    /\ UNCHANGED fanVars
    /\ UNCHANGED received
    /\ UNCHANGED environ
    /\ UNCHANGED listed
    /\ UNCHANGED wizardVars

\* A file of this run stops being readable (removed, permission revoked).
Revoked(p) ==
    /\ pc \in {"polling", "reading"}
    /\ TokenOfPath(p) = requestId
    /\ fs[p].state = "readable"
    /\ fs' = [fs EXCEPT ![p] = [state |-> "unreadable", data |-> <<>>]]
    /\ UNCHANGED <<machines, call, pc, netlog, now, timerAt, requestId, reads, targetResult, exportResult,
                   clip, result>>
    /\ UNCHANGED waitVars
    /\ UNCHANGED fanVars
    /\ UNCHANGED received
    /\ UNCHANGED environ
    /\ UNCHANGED listed
    /\ UNCHANGED wizardVars

CaptureNext ==
    \/ MachineNotFound
    \/ GetClipboardStart
    \/ TargetTrigger
    \/ TargetResponse
    \/ SettleDone
    \/ ExportResponse
    \/ \E w \in Waiters : AccessSettles(w)
    \/ \E w \in Waiters : SleepEnds(w)
    \/ PollJoin
    \/ ReadSettles
    \/ SettleTimePasses
    \/ PollTimePasses
    \/ \E p \in AllPaths : RemoteWrites(p)
    \/ \E p \in AllPaths : Revoked(p)

CaptureSpec == CaptureInit /\ [][CaptureNext]_vars

\* The steps of the server and of its clock, without those of the remote
\* host.
CaptureProgram ==
    \/ MachineNotFound
    \/ GetClipboardStart
    \/ TargetTrigger
    \/ TargetResponse
    \/ SettleDone
    \/ ExportResponse
    \/ \E w \in Waiters : AccessSettles(w)
    \/ \E w \in Waiters : SleepEnds(w)
    \/ PollJoin
    \/ ReadSettles
    \/ SettleTimePasses
    \/ PollTimePasses

\* The scheduling of the event loop: while a callback is ready, a request
\* is awaited or a timer is pending, one of them is served.
CaptureFairness == WF_vars(CaptureProgram)

FairCaptureSpec == CaptureSpec /\ CaptureFairness

(***************************************************************************)
(* trigger_macro_on_all                                                    *)
(***************************************************************************)

FanMachines == {Studio, Laptop}

RECURSIVE SeqsOfLen(_, _)
SeqsOfLen(S, n) ==
    IF n = 0 THEN {<<>>}
    ELSE {Append(q, x) : q \in SeqsOfLen(S, n - 1), x \in S}

\* Registries getMachines can return: names may repeat.
FanRegistries == UNION {SeqsOfLen(FanMachines, n) : n \in 0..MaxMachines}

FanCalls ==
    [tool : {"trigger_macro_on_all"}, machine : {Undefined}, macro : {"Lock Screen"},
     value : {Undefined, "", "now"}, delay : {NoDelay}]

\* The responses the fan-out is run against: a success with a body, an
\* HTTP failure and a transport failure.
FanResponses ==
    {r \in Responses : \/ r.status = 200 /\ r.body = "42"
                       \/ r.status = 403 /\ r.body = ""
                       \/ r.kind = "error"}

FanInit ==
    /\ machines \in FanRegistries
    /\ call \in FanCalls
    /\ pc = "start"
    /\ netlog = <<>>
    /\ result = None
    /\ CaptureIdle
    /\ FanIdle
    /\ received = None
    /\ environ = None
    /\ listed = None
    /\ WizardIdle

\* A promise that rejected instead of returning an outcome.
IsRejected(o) == "rejected" \in DOMAIN o

\* The results in the order the calls completed.
ResultSlotByCompletion(i, done) == done + 1

\* Promise.all: the value of the i-th promise goes to index i of the array,
\* however many settled before it.
ResultSlot(i, done) == i

\* Promise.all settles when every promise is fulfilled or one is rejected.
PromiseAllSettled(os) ==
    \/ \E i \in 1..Len(os) : os[i] # None /\ IsRejected(os[i])
    \/ \A i \in 1..Len(os) : os[i] # None

\* results.map((r, i) => `${machines[i].name}: ${r.message}`).join("\n")
RECURSIVE Summary(_, _, _)
Summary(ms, results, i) ==
    IF i > Len(results) THEN ""
    ELSE ms[i].name \o ": " \o results[i].message
         \o (IF i < Len(results) THEN "\n" ELSE "") \o Summary(ms, results, i + 1)

\* results.some in place of results.every.
SomeSuccess(results) == \E i \in 1..Len(results) : results[i].success

\* results.every((r) => r.success)
AllSuccess(results) == \A i \in 1..Len(results) : results[i].success

\* The handler without its length test: Promise.all over no calls, an empty
\* summary and every() over no results.
FanEmptyVacuous ==
    /\ pc = "start"
    /\ call.tool = "trigger_macro_on_all"
    /\ Len(machines) = 0
    /\ Return([content |-> <<TextItem("")>>, isError |-> ~AllSuccess(<<>>)])
    /\ UNCHANGED <<machines, call, netlog>>
    /\ UNCHANGED captureVars
    /\ UNCHANGED fanVars
    /\ UNCHANGED received
    /\ UNCHANGED environ
    /\ UNCHANGED listed
    /\ UNCHANGED wizardVars

\* trigger_macro_on_all: the registry is empty.
FanEmpty ==
    /\ pc = "start"
    /\ call.tool = "trigger_macro_on_all"
    /\ Len(machines) = 0
    /\ Return(ErrorResult("No machines configured."))
    /\ UNCHANGED <<machines, call, netlog>>
    /\ UNCHANGED captureVars
    /\ UNCHANGED fanVars
    /\ UNCHANGED received
    /\ UNCHANGED environ
    /\ UNCHANGED listed
    /\ UNCHANGED wizardVars

\* trigger_macro_on_all: machines.map calls triggerMacro for every machine,
\* in registry order; each call sends its request before the next begins.
FanStart ==
    /\ pc = "start"
    /\ call.tool = "trigger_macro_on_all"
    /\ Len(machines) > 0
    /\ netlog' = [i \in 1..Len(machines) |-> TriggerRequest(machines[i], call.macro, call.value)]
    /\ outcomes' = [i \in 1..Len(machines) |-> None]
    /\ pc' = "fan_wait"
    /\ UNCHANGED <<machines, call, result, completed>>
    /\ UNCHANGED captureVars
    /\ UNCHANGED received
    /\ UNCHANGED environ
    /\ UNCHANGED listed
    /\ UNCHANGED wizardVars

Pending == {i \in 1..Len(machines) : i \notin {completed[k] : k \in 1..Len(completed)}}

\* The call to machine i settles, in any order among the calls.
FanResponse(i) ==
    /\ pc = "fan_wait"
    /\ i \in Pending
    /\ \E resp \in FanResponses :
         outcomes' = [outcomes EXCEPT ![ResultSlot(i, Len(completed))] =
                        TriggerOutcome(machines[i], call.macro, resp)]
    /\ completed' = Append(completed, i)
    /\ UNCHANGED <<machines, call, pc, netlog, result>>
    /\ UNCHANGED captureVars
    /\ UNCHANGED received
    /\ UNCHANGED environ
    /\ UNCHANGED listed
    /\ UNCHANGED wizardVars

\* trigger_macro_on_all: Promise.all settled; the summary is returned (a
\* rejection would leave the handler as a thrown error).
FanSettle ==
    /\ pc = "fan_wait"
    /\ PromiseAllSettled(outcomes)
    /\ IF \E i \in 1..Len(outcomes) : outcomes[i] # None /\ IsRejected(outcomes[i])
       THEN Return([thrown |-> TRUE])
       ELSE Return([content |-> <<TextItem(Summary(machines, outcomes, 1))>>,
                    isError |-> ~AllSuccess(outcomes)])
    /\ UNCHANGED <<machines, call, netlog>>
    /\ UNCHANGED captureVars
    /\ UNCHANGED fanVars
    /\ UNCHANGED received
    /\ UNCHANGED environ
    /\ UNCHANGED listed
    /\ UNCHANGED wizardVars

FanNext ==
    \/ FanEmpty
    \/ FanStart
    \/ \E i \in 1..Len(machines) : FanResponse(i)
    \/ FanSettle

FanSpec == FanInit /\ [][FanNext]_vars

(***************************************************************************)
(* list_macros, trigger_macro and fetchUrl                                 *)
(***************************************************************************)

\* A machine with credentials and a port of its own.
Office ==
    [MachineConfig("Office", "10.0.0.6", TRUE, Undefined, Undefined)
       EXCEPT !.port = 8080, !.username = "admin", !.password = "pw"]

ToolRegistries == {<<>>, <<Studio, Laptop>>, <<Office, Studio>>}

\* The macro and value arguments trigger_macro is called with.
ToolMacros == {"Take Screenshot"}

ToolValues == {Undefined, "", "a&b=c d"}

\* The paths fetchUrl is called with: one of the machine, one absolute.
FetchPaths == {"/authenticated.html", "http://10.0.0.9:8000/probe"}

ToolCalls ==
    [tool : {"trigger_macro"}, machine : {Undefined, "", "LAPTOP", "Ghost"},
     macro : ToolMacros, value : ToolValues]
    \cup [tool : {"list_macros"}, machine : {Undefined, "STUDIO", "Ghost"}]
    \cup [tool : {"fetchUrl"}, machine : {Undefined, "LAPTOP"}, path : FetchPaths]

\* The statuses a trigger or fetchUrl response is drawn from: the ends of
\* the 2xx range, the two statuses with an outcome of their own, and others.
ToolStatuses == HttpStatuses \cup {299, 300, 404}

ToolResponses ==
    [kind : {"http"}, status : ToolStatuses, body : {"", "42"}]
    \cup {r \in Responses : r.kind = "error"}

\* Catalog pages.  Protected: a public form, then the protected form with
\* two groups of two options, one label holding an entity.
ProtectedPage ==
    <<[t |-> "form", action |-> "action.html"],
      [t |-> "optgroup", label |-> <<"P", "u", "b">>],
      [t |-> "option", label |-> <<"O", "p", "e", "n">>, value |-> "U0"],
      [t |-> "/optgroup"],
      [t |-> "/form"],
      [t |-> "form", action |-> "authenticatedaction.html"],
      [t |-> "optgroup", label |-> <<"A", "&", "a", "m", "p", ";", "B">>],
      [t |-> "option", label |-> <<" ", "L", "o", "c", "k", " ">>, value |-> "U1"],
      [t |-> "option", label |-> <<"&", "#", "6", "5", ";">>, value |-> "U2"],
      [t |-> "/optgroup"],
      [t |-> "optgroup", label |-> <<"G", "2">>],
      [t |-> "option", label |-> <<"&", "#", "x", "4", "1", ";">>, value |-> "U3"],
      [t |-> "option", label |-> <<"&", "q", "u", "o", "t", ";">>, value |-> "U4"],
      [t |-> "/optgroup"],
      [t |-> "/form"]>>

\* No form: options without a value, with an empty value, with a blank
\* label, and a group without a label.
RaggedPage ==
    <<[t |-> "optgroup", label |-> <<"G">>],
      [t |-> "option", label |-> <<"J">>, value |-> "U9"],
      [t |-> "option", label |-> <<"N", "o", "I", "d">>],
      [t |-> "option", label |-> <<"E">>, value |-> ""],
      [t |-> "option", label |-> <<" ", " ">>, value |-> "U5"],
      [t |-> "option", label |-> <<"K">>, value |-> "U6"],
      [t |-> "/optgroup"],
      [t |-> "optgroup"],
      [t |-> "option", label |-> <<"L">>, value |-> "U7"],
      [t |-> "/optgroup"]>>

\* A label with a character reference above the last code point.
OverflowPage ==
    <<[t |-> "optgroup", label |-> <<"G">>],
      [t |-> "option", label |-> <<"&", "#", "1", "1", "1", "4", "1", "1", "2", ";">>,
       value |-> "U8"],
      [t |-> "/optgroup"]>>

\* Labels that spell an entity: the macros named "&lt;" and "&amp;".
EscapedPage ==
    <<[t |-> "optgroup", label |-> <<"G">>],
      [t |-> "option", label |-> <<"&", "a", "m", "p", ";", "l", "t", ";">>,
       value |-> "UA"],
      [t |-> "option", label |-> <<"&", "#", "3", "8", ";", "a", "m", "p", ";">>,
       value |-> "UB"],
      [t |-> "/optgroup"]>>

CatalogPages == {<<>>, ProtectedPage, RaggedPage, OverflowPage, EscapedPage}

\* What fetch can do for listMacros: a page, a failure status, or reject.
ListHttpResponses ==
    [kind : {"http"}, status : {200}, body : CatalogPages]
    \cup [kind : {"http"}, status : {401, 403, 500}, body : {<<>>}]

TransportErrors == {r \in Responses : r.kind = "error"}

ToolInit ==
    /\ machines \in ToolRegistries
    /\ call \in ToolCalls
    /\ call.tool = "fetchUrl" => findMachine(machines, call.machine) # 0
    /\ pc = "start"
    /\ netlog = <<>>
    /\ result = None
    /\ CaptureIdle
    /\ FanIdle
    /\ received = None
    /\ environ = None
    /\ listed = None
    /\ WizardIdle

\* JSON.stringify of a string of the model (none holds a character JSON
\* escapes).
JsonString(s) == "\"" \o s \o "\""

\* JSON.stringify of a decoded label: a double quote and a backslash are
\* escaped.
RECURSIVE JsonEscape(_)
JsonEscape(cs) ==
    IF Len(cs) = 0 THEN ""
    ELSE (IF cs[1] = "\"" THEN "\\\"" ELSE IF cs[1] = "\\" THEN "\\\\" ELSE cs[1])
         \o JsonEscape(Tail(cs))

\* The elements of the macros array, at indent 2.
RECURSIVE JsonMacros(_)
JsonMacros(ms) ==
    IF Len(ms) = 0 THEN ""
    ELSE "    {\n      \"name\": \"" \o JsonEscape(ms[1].name) \o "\",\n"
         \o "      \"uid\": " \o JsonString(ms[1].uid) \o ",\n"
         \o "      \"group\": \"" \o JsonEscape(ms[1].group) \o "\"\n    }"
         \o (IF Len(ms) > 1 THEN ",\n" ELSE "\n") \o JsonMacros(Tail(ms))

\* JSON.stringify({machine, macros, count}, null, 2)
CatalogJson(machine, macros) ==
    "{\n  \"machine\": " \o JsonString(machine.name) \o ",\n  \"macros\": "
    \o (IF Len(macros) = 0 THEN "[]" ELSE "[\n" \o JsonMacros(macros) \o "  ]")
    \o ",\n  \"count\": " \o ToString(Len(macros)) \o "\n}"

\* list_macros: the tool result for a listMacros result (its message is
\* never empty, so the "Failed to list macros" default is not reached).
ListToolResult(machine, r) ==
    IF ~r.success THEN ErrorResult(r.message)
    ELSE [content |-> <<TextItem(CatalogJson(machine, r.macros))>>]

\* trigger_macro: the tool result for a triggerMacro result.
TriggerToolResult(r) ==
    [content |-> <<TextItem(IF Has(r, "result") /\ ~Falsy(r.result)
                            THEN r.message \o "\n\nResult:\n" \o r.result
                            ELSE r.message)>>,
     isError |-> ~r.success]

\* path.startsWith("http"), on the paths the model uses.
StartsWithHttp(path) == path = "http://10.0.0.9:8000/probe"

\* Where a request for an absolute URL of the model goes.
UrlTarget(url) ==
    IF url = "http://10.0.0.9:8000/probe"
    THEN [scheme |-> "http", host |-> "10.0.0.9", port |-> 8000, path |-> "/probe"]
    ELSE [scheme |-> "?", host |-> "?", port |-> 0, path |-> url]

\* The request fetchUrl sends: the path itself when it starts with "http",
\* else the path on the machine's base URL; the machine's credentials in
\* both cases.
FetchRequest(machine, path) ==
    LET target == IF StartsWithHttp(path) THEN UrlTarget(path)
                  ELSE [scheme |-> IF machine.secure THEN "https" ELSE "http",
                        host |-> machine.host,
                        port |-> IF machine.secure THEN machine.port + 1 ELSE machine.port,
                        path |-> path]
    IN [scheme |-> target.scheme, host |-> target.host, port |-> target.port,
        path |-> target.path,
        url |-> IF StartsWithHttp(path) THEN path ELSE getBaseUrl(machine) \o path,
        authorization |-> getAuthHeader(machine),
        machine |-> machine.name]

\* How the promise of fetchUrl settles: it has no try/catch, so a rejection
\* of fetch is a rejection of fetchUrl with the same error; otherwise the
\* status, the headers and the body are returned.
FetchUrlSettled(machine, resp) ==
    IF resp.kind = "error" THEN [rejected |-> TRUE, error |-> resp.body]
    ELSE [status |-> resp.status, headers |-> <<>>, body |-> resp.body]

\* list_macros, trigger_macro or fetchUrl: the request is sent.
ToolRequest ==
    /\ pc = "start"
    /\ call.tool \in {"list_macros", "trigger_macro", "fetchUrl"}
    /\ findMachine(machines, call.machine) # 0
    /\ netlog' = Append(netlog,
                        CASE call.tool = "list_macros" -> ListRequest(Selected)
                          [] call.tool = "trigger_macro" ->
                               TriggerRequest(Selected, call.macro, call.value)
                          [] call.tool = "fetchUrl" -> FetchRequest(Selected, call.path))
    /\ pc' = "fetch_wait"
    /\ UNCHANGED <<machines, call, result, received>>
    /\ UNCHANGED captureVars
    /\ UNCHANGED fanVars
    /\ UNCHANGED environ
    /\ UNCHANGED listed
    /\ UNCHANGED wizardVars

\* trigger_macro: triggerMacro settles and the handler returns.
TriggerMacroResponse ==
    /\ pc = "fetch_wait"
    /\ call.tool = "trigger_macro"
    /\ \E resp \in ToolResponses :
         /\ received' = resp
         /\ targetResult' = TriggerOutcome(Selected, call.macro, resp)
         /\ Return(TriggerToolResult(targetResult'))
    /\ UNCHANGED <<machines, call, netlog, now, timerAt, requestId, fs, reads,
                   exportResult, clip>>
    /\ UNCHANGED waitVars
    /\ UNCHANGED fanVars
    /\ UNCHANGED environ
    /\ UNCHANGED listed
    /\ UNCHANGED wizardVars

\* list_macros: listMacros settles for a response and the handler returns.
ListSettles(resp) ==
    /\ received' = resp
    /\ listed' = ListOutcome(Selected, resp)
    /\ Return(ListToolResult(Selected, listed'))

\* list_macros: the response is a page or a failure status, or fetch rejects.
ListMacrosResponse ==
    /\ pc = "fetch_wait"
    /\ call.tool = "list_macros"
    /\ \/ \E resp \in ListHttpResponses : ListSettles(resp)
       \/ \E resp \in TransportErrors : ListSettles(resp)
    /\ UNCHANGED <<machines, call, netlog>>
    /\ UNCHANGED captureVars
    /\ UNCHANGED fanVars
    /\ UNCHANGED environ
    /\ UNCHANGED wizardVars

\* fetchUrl: the promise settles; the caller gets the value or the error.
FetchUrlResponse ==
    /\ pc = "fetch_wait"
    /\ call.tool = "fetchUrl"
    /\ \E resp \in ToolResponses :
         /\ received' = resp
         /\ Return(FetchUrlSettled(Selected, resp))
    /\ UNCHANGED <<machines, call, netlog>>
    /\ UNCHANGED captureVars
    /\ UNCHANGED fanVars
    /\ UNCHANGED environ
    /\ UNCHANGED listed
    /\ UNCHANGED wizardVars

ToolNext ==
    \/ MachineNotFound
    \/ ToolRequest
    \/ TriggerMacroResponse
    \/ ListMacrosResponse
    \/ FetchUrlResponse

ToolSpec == ToolInit /\ [][ToolNext]_vars

(***************************************************************************)
(* getMachines                                                             *)
(*                                                                         *)
(* An environment variable is a string or undefined.  The text of          *)
(* KM_MACHINES is kept as what JSON.parse makes of it: a text that is not  *)
(* JSON, or the JSON value the text denotes.                               *)
(***************************************************************************)

JNull == [type |-> "null"]

JNumber(n) == [type |-> "number", n |-> n]

JString(str) == [type |-> "string", s |-> str]

\* A JSON object: fields holds the members the object has.
JObject(fields) == [type |-> "object", fields |-> fields]

JArray(items) == [type |-> "array", items |-> items]

\* The values of process.env.KM_MACHINES: not set, set to the empty string,
\* a text JSON.parse rejects, a text that denotes the JSON value v.
EnvUnset == [kind |-> "unset"]

EnvEmpty == [kind |-> "empty"]

EnvNotJson == [kind |-> "invalid", text |-> "[{\"name\": \"Studio\""]

EnvJson(v) == [kind |-> "json", value |-> v]

\* !machinesEnv: undefined and the empty string.
EnvFalsy(text) == text.kind \in {"unset", "empty"}

\* Does JSON.parse(text) throw a SyntaxError?  (The empty string is no JSON
\* text either.)
JsonParseThrows(text) == text.kind \in {"invalid", "empty"}

\* JSON.parse(text) for a text it accepts.
JsonParse(text) == text.value

\* Array.isArray(parsed)
IsArray(v) == v.type = "array"

\* m.field for an element m of the parsed array: the member of an object,
\* undefined for a member the object lacks and for any property of a number
\* or a string.
Member(m, field, absent) ==
    IF m.type = "object" /\ Has(m.fields, field) THEN m.fields[field] ELSE absent

\* Reading a property of null throws a TypeError.
MemberThrows(m) == m.type = "null"

\* m.port of an element without a port.
NoPort == -1

\* The default left out: a missing port stays missing.
PortNotDefaulted(port) == port

\* m.port || 4490: undefined and 0 are falsy.
PortOrDefault(port) == IF port = NoPort \/ port = 0 THEN DefaultPort ELSE port

\* The callback of parsed.map: one MachineConfig from one element.
MachineFromElement(m) ==
    [name |-> IF Falsy(Member(m, "name", Undefined)) THEN "unnamed"
              ELSE Member(m, "name", Undefined),
     host |-> Member(m, "host", Undefined),
     port |-> PortOrDefault(Member(m, "port", NoPort)),
     username |-> Member(m, "username", Undefined),
     password |-> Member(m, "password", Undefined),
     secure |-> Member(m, "secure", FALSE),
     outputDir |-> Member(m, "outputDir", Undefined),
     saveClipboardMacroUid |->
         IF Falsy(Member(m, "saveClipboardMacroUid", Undefined))
         THEN SAVE_CLIPBOARD_MACRO_UID
         ELSE Member(m, "saveClipboardMacroUid", Undefined)]

\* parseInt(port, 10) on the KM_PORT strings the model uses.
ParsePort(str) ==
    CASE str = "8080" -> 8080
      [] str = "4490" -> 4490
      [] OTHER -> 0

\* The flat-field branch: one machine when host, username and password are
\* all set, else none.
FlatMachines(env) ==
    IF ~Falsy(env.KM_HOST) /\ ~Falsy(env.KM_USERNAME) /\ ~Falsy(env.KM_PASSWORD)
    THEN <<[name |-> IF Falsy(env.KM_NAME) THEN env.KM_HOST ELSE env.KM_NAME,
            host |-> env.KM_HOST,
            port |-> IF Falsy(env.KM_PORT) THEN DefaultPort ELSE ParsePort(env.KM_PORT),
            username |-> env.KM_USERNAME,
            password |-> env.KM_PASSWORD,
            secure |-> (env.KM_SECURE = "true"),
            outputDir |-> env.KM_OUTPUT_DIR,
            saveClipboardMacroUid |->
                IF Falsy(env.KM_SAVE_CLIPBOARD_MACRO_UID) THEN SAVE_CLIPBOARD_MACRO_UID
                ELSE env.KM_SAVE_CLIPBOARD_MACRO_UID]>>
    ELSE <<>>

\* The flat fields read even when KM_MACHINES is set.
getMachinesFlatFirst(env) ==
    IF FlatMachines(env) # <<>> \/ EnvFalsy(env.KM_MACHINES) THEN FlatMachines(env)
    ELSE IF JsonParseThrows(env.KM_MACHINES) THEN <<>>
    ELSE IF ~IsArray(JsonParse(env.KM_MACHINES)) THEN <<>>
    ELSE LET items == JsonParse(env.KM_MACHINES).items IN
         IF \E i \in 1..Len(items) : MemberThrows(items[i]) THEN <<>>
         ELSE [i \in 1..Len(items) |-> MachineFromElement(items[i])]

\* getMachines: the flat fields when KM_MACHINES is falsy; else the parsed
\* array mapped element by element, and the empty registry when the parse
\* or the mapping throws (the catch block) or the value is no array.
getMachines(env) ==
    IF EnvFalsy(env.KM_MACHINES) THEN FlatMachines(env)
    ELSE IF JsonParseThrows(env.KM_MACHINES) THEN <<>>
    ELSE IF ~IsArray(JsonParse(env.KM_MACHINES)) THEN <<>>
    ELSE LET items == JsonParse(env.KM_MACHINES).items IN
         IF \E i \in 1..Len(items) : MemberThrows(items[i]) THEN <<>>
         ELSE [i \in 1..Len(items) |-> MachineFromElement(items[i])]

(***************************************************************************)
(* main(): the registry is loaded from the environment                     *)
(***************************************************************************)

\* The longest KM_MACHINES array.
MaxElements == 2

Credentials == [username |-> "km", password |-> "secret"]

\* Well-formed machine objects: port and secure omitted, both given, both
\* given with every optional member.
PlainElement == JObject([name |-> "Studio", host |-> "10.0.0.2"] @@ Credentials)

SecureElement ==
    JObject([name |-> "studio", host |-> "10.0.0.3", port |-> 8080, secure |-> TRUE]
            @@ Credentials)

FullElement ==
    JObject([name |-> "Laptop", host |-> "10.0.0.4", port |-> 1, secure |-> FALSE,
             outputDir |-> SharedDir, saveClipboardMacroUid |-> "CUSTOM-UID"]
            @@ Credentials)

\* An object without a name.
NamelessElement == JObject([host |-> "10.0.0.5"] @@ Credentials)

WellFormedElements == {PlainElement, SecureElement, FullElement}

\* What an array of KM_MACHINES can hold.
Elements == WellFormedElements \cup {NamelessElement, JNull, JNumber(5)}

ElementArrays == UNION {SeqsOfLen(Elements, n) : n \in 0..MaxElements}

\* JSON values that are no array.
NonArrays == {PlainElement, JNull, JString("Studio")}

ListEnvs ==
    {EnvUnset, EnvEmpty, EnvNotJson}
    \cup {EnvJson(v) : v \in NonArrays}
    \cup {EnvJson(JArray(items)) : items \in ElementArrays}

\* The flat fields: none set, a machine without its password, a valid
\* machine, a valid machine with every field set.
NoFlat ==
    [KM_HOST |-> Undefined, KM_PORT |-> Undefined, KM_USERNAME |-> Undefined,
     KM_PASSWORD |-> Undefined, KM_SECURE |-> Undefined, KM_NAME |-> Undefined,
     KM_OUTPUT_DIR |-> Undefined, KM_SAVE_CLIPBOARD_MACRO_UID |-> Undefined]

PartialFlat == [NoFlat EXCEPT !.KM_HOST = "10.0.0.9", !.KM_USERNAME = "km"]

ValidFlat == [PartialFlat EXCEPT !.KM_PASSWORD = "secret"]

FullFlat ==
    [ValidFlat EXCEPT !.KM_PORT = "8080", !.KM_SECURE = "true", !.KM_NAME = "Flat",
                      !.KM_OUTPUT_DIR = SharedDir,
                      !.KM_SAVE_CLIPBOARD_MACRO_UID = "CUSTOM-UID"]

FlatEnvs == {NoFlat, PartialFlat, ValidFlat, FullFlat}

\* process.env with the list form and the flat fields.
EnvOf(list, flat) == [KM_MACHINES |-> list] @@ flat

Envs == {EnvOf(list, flat) : list \in ListEnvs, flat \in FlatEnvs}

\* The names a tool call looks up once the registry is loaded.
LookupNames == {Undefined, "STUDIO", "unnamed", "Ghost"}

ResolveInit ==
    /\ environ \in Envs
    /\ listed = None
    /\ WizardIdle
    /\ machines = <<>>
    /\ call = None
    /\ pc = "boot"
    /\ netlog = <<>>
    /\ result = None
    /\ received = None
    /\ CaptureIdle
    /\ FanIdle

\* main(): const machines = getMachines().
LoadRegistry ==
    /\ pc = "boot"
    /\ machines' = getMachines(environ)
    /\ pc' = "loaded"
    /\ UNCHANGED <<call, netlog, result, received, environ>>
    /\ UNCHANGED listed
    /\ UNCHANGED wizardVars
    /\ UNCHANGED captureVars
    /\ UNCHANGED fanVars

\* A handler looks its machine argument up: findMachine(machines, name).
LookupMachine ==
    /\ pc = "loaded"
    /\ \E name \in LookupNames :
         /\ call' = [tool |-> "findMachine", machine |-> name]
         /\ result' = [index |-> findMachine(machines, name)]
    /\ pc' = "looked_up"
    /\ UNCHANGED <<machines, netlog, received, environ>>
    /\ UNCHANGED listed
    /\ UNCHANGED wizardVars
    /\ UNCHANGED captureVars
    /\ UNCHANGED fanVars

ResolveNext ==
    \/ LoadRegistry
    \/ LookupMachine

ResolveSpec == ResolveInit /\ [][ResolveNext]_vars

(***************************************************************************)
(* handleConfigWizard                                                      *)
(*                                                                         *)
(* A path is a sequence of pieces of text in which every character the     *)
(* code looks at (a leading "~" or "/", white space, a newline) is a piece *)
(* of its own.  A string argument that is not given is NoText.             *)
(***************************************************************************)

\* How many sessions are started, and how many generate calls are awaited
\* at a time.
MaxSessions == 2

MaxInFlight == 1

NoText == <<Undefined>>

\* !path, on a path or an argument that may be undefined or empty.
Absent(cs) == cs = NoText \/ cs = <<>>

\* process.env.HOME and homedir()
Home == <<"/", "Users", "/", "me">>

\* expandPath(path): a leading "~/" is replaced by the home directory.
expandPath(path) ==
    IF StartsWith(path, <<"~", "/">>) THEN Home \o Tail(path) ELSE path

\* validatePath(path)
validatePath(path) ==
    IF Absent(path) \/ Trim(path) = <<>>
    THEN [valid |-> FALSE, error |-> "Path cannot be empty"]
    ELSE IF ~StartsWith(path, <<"/">>) /\ ~StartsWith(path, <<"~">>)
    THEN [valid |-> FALSE, error |-> "Path must be absolute (start with / or ~)"]
    ELSE IF \E i \in 1..Len(path) : path[i] \in {"\n", "\r"}
    THEN [valid |-> FALSE, error |-> "Path cannot contain newlines"]
    ELSE [valid |-> TRUE]

\* join(homedir(), "Downloads", "keyboard-maestro-mcp.kmmacros")
DefaultSavePath == Home \o <<"/", "Downloads", "/", "keyboard-maestro-mcp.kmmacros">>

\* output_path || join(homedir(), ...)
SavePath(output_path) == IF Absent(output_path) THEN DefaultSavePath ELSE output_path

\* The ids randomUUID().slice(0, 8) gives, in the order they are drawn;
\* an id is not drawn twice.
SessionPool == <<"3fa85f64", "9b2c6d1e", "c0ffee12", "0d15ea5e">>

SessionIds == {SessionPool[i] : i \in 1..MaxSessions}

\* The session_id arguments: not given, empty, never issued, or an id.
SessionArgs == {Undefined, "", "ffffffff"} \cup SessionIds

\* The path arguments of set_path.
PathArgs ==
    {NoText, <<>>, <<" ", " ">>, <<"Documents", "/", "KM">>, <<"/", "tmp", "\n", "km">>,
     <<"~", "/", "Documents", "/", "KM">>, <<"/", "tmp", "/", "km">>}

\* The output_path arguments of generate.
OutputArgs == {NoText, <<"~", "/", "km.kmmacros">>}

\* error.message of a mkdir or writeFile call that fails.
WriteErrorText == "EACCES: permission denied"

\* { step: "start" } and the states set_path and generate make of it.
WizardState(step, filePath, generatedFile) ==
    [step |-> step, filePath |-> filePath, generatedFile |-> generatedFile]

WizardInit ==
    /\ machines = <<>>
    /\ call = None
    /\ pc = "wizard"
    /\ netlog = <<>>
    /\ result = None
    /\ CaptureIdle
    /\ FanIdle
    /\ received = None
    /\ environ = None
    /\ listed = None
    /\ WizardIdle

\* The text of the start action: the heading and the line with the session
\* id (the fixed paragraphs of the text are left out, here and below).
StartText(newSessionId) ==
    "# Keyboard Maestro MCP Setup Wizard\n\nSession ID: " \o newSessionId

NoSessionText ==
    "No active wizard session. Call with action=\"start\" to begin a new session."

NoPathText == "Please provide a path. Example:\n  path: \"~/Documents/Keyboard Maestro MCP\""

InvalidPathText(validation) ==
    "Invalid path: " \o validation.error
    \o "\n\nPlease provide an absolute path starting with / or ~/"

PathSetText(path, session_id) ==
    "# Path configured\n\n**Storage path:** " \o JoinChars(path) \o "\n**Expanded:** "
    \o JoinChars(expandPath(path)) \o "\n\n- session_id: \"" \o session_id \o "\""

NoStorageText == "Please set a storage path first using action=\"set_path\""

GeneratedText(expandedSavePath, expandedStoragePath) ==
    "# Macros file generated!\n\n**Saved to:** " \o JoinChars(expandedSavePath)
    \o "\n\n  \"outputDir\": \"" \o JoinChars(expandedStoragePath) \o "\""

WriteFailedText(message) ==
    "Failed to write file: " \o message \o "\n\nTry a different output_path."

\* state.filePath || "(not set)" and state.generatedFile || "(not generated)"
StatusText(session_id, state) ==
    "# Wizard Status\n\n**Session ID:** " \o session_id \o "\n**Step:** " \o state.step
    \o "\n**Storage path:** "
    \o (IF Absent(state.filePath) THEN "(not set)" ELSE JoinChars(state.filePath))
    \o "\n**Generated file:** "
    \o (IF Absent(state.generatedFile) THEN "(not generated)"
        ELSE JoinChars(state.generatedFile))

\* A result without isError.
WizardOk(text) == [content |-> <<TextItem(text)>>]

\* The handler returns r for a call of the action on the session.
WizardReplies(action, session_id, r) ==
    wizardReply' = [action |-> action, session_id |-> session_id, result |-> r]

\* wizardStates.get(session_id) gives a state: the id is given and bound.
HasSession(session_id) == ~Falsy(session_id) /\ session_id \in DOMAIN wizardStates

\* action "start": a new id is bound to { step: "start" }.
WizardStart ==
    /\ pc = "wizard"
    /\ \E n \in 1..MaxSessions :
         /\ n = Cardinality(DOMAIN wizardStates) + 1
         /\ wizardStates' = (SessionPool[n] :> WizardState("start", NoText, NoText))
                            @@ wizardStates
         /\ WizardReplies("start", Undefined, WizardOk(StartText(SessionPool[n])))
    /\ UNCHANGED <<wizardCalls, wizardPast>>
    /\ UNCHANGED <<machines, call, pc, netlog, result, received, environ, listed>>
    /\ UNCHANGED captureVars
    /\ UNCHANGED fanVars

\* "Get or create session": an id that is not bound is bound to a new state
\* before the error is returned.
WizardNoSessionCreates ==
    /\ pc = "wizard"
    /\ \E action \in {"set_path", "generate", "status"}, session_id \in SessionArgs :
         /\ ~HasSession(session_id)
         /\ wizardStates' = IF Falsy(session_id) THEN wizardStates
                            ELSE (session_id :> WizardState("start", NoText, NoText))
                                 @@ wizardStates
         /\ WizardReplies(action, session_id, ErrorResult(NoSessionText))
    /\ UNCHANGED <<wizardCalls, wizardPast>>
    /\ UNCHANGED <<machines, call, pc, netlog, result, received, environ, listed>>
    /\ UNCHANGED captureVars
    /\ UNCHANGED fanVars

\* Any other action without a session: the error is returned.
WizardNoSession ==
    /\ pc = "wizard"
    /\ \E action \in {"set_path", "generate", "status"}, session_id \in SessionArgs :
         /\ ~HasSession(session_id)
         /\ WizardReplies(action, session_id, ErrorResult(NoSessionText))
    /\ UNCHANGED <<wizardStates, wizardCalls, wizardPast>>
    /\ UNCHANGED <<machines, call, pc, netlog, result, received, environ, listed>>
    /\ UNCHANGED captureVars
    /\ UNCHANGED fanVars

\* The state set_path leaves without resetting generatedFile.
SetPathState(state, path) == [state EXCEPT !.filePath = path, !.step = "path"]

\* action "set_path": the path is checked, then stored with step "path".
WizardSetPath ==
    /\ pc = "wizard"
    /\ \E session_id \in SessionArgs, path \in PathArgs :
         /\ HasSession(session_id)
         /\ IF Absent(path)
            THEN /\ WizardReplies("set_path", session_id, ErrorResult(NoPathText))
                 /\ UNCHANGED <<wizardStates, wizardPast>>
            ELSE IF ~validatePath(path).valid
            THEN /\ WizardReplies("set_path", session_id,
                                  ErrorResult(InvalidPathText(validatePath(path))))
                 /\ UNCHANGED <<wizardStates, wizardPast>>
            ELSE /\ wizardStates' =
                        [wizardStates EXCEPT
                           ![session_id] = SetPathState(wizardStates[session_id], path)]
                 /\ wizardPast' = wizardPast \cup
                                    {[session_id |-> session_id, action |-> "set_path"]}
                 /\ WizardReplies("set_path", session_id,
                                  WizardOk(PathSetText(path, session_id)))
    /\ UNCHANGED wizardCalls
    /\ UNCHANGED <<machines, call, pc, netlog, result, received, environ, listed>>
    /\ UNCHANGED captureVars
    /\ UNCHANGED fanVars

\* generate runs without a stored path as well.
GenerateRefusedNever(state) == FALSE

\* if (!state.filePath)
GenerateRefused(state) == Absent(state.filePath)

\* action "generate" up to its first await: refused without a stored path,
\* else the two paths are expanded, the file content is made and mkdir is
\* called.
WizardGenerate ==
    /\ pc = "wizard"
    /\ \E session_id \in SessionArgs, output_path \in OutputArgs :
         /\ HasSession(session_id)
         /\ IF GenerateRefused(wizardStates[session_id])
            THEN /\ WizardReplies("generate", session_id, ErrorResult(NoStorageText))
                 /\ UNCHANGED wizardCalls
            ELSE /\ Cardinality(wizardCalls) < MaxInFlight
                 /\ wizardCalls' = wizardCalls \cup
                      {[session_id |-> session_id,
                        expandedSavePath |-> expandPath(SavePath(output_path)),
                        expandedStoragePath |->
                            expandPath(wizardStates[session_id].filePath),
                        at |-> "mkdir"]}
                 /\ wizardCalls' # wizardCalls
                 /\ UNCHANGED wizardReply
    /\ UNCHANGED <<wizardStates, wizardPast>>
    /\ UNCHANGED <<machines, call, pc, netlog, result, received, environ, listed>>
    /\ UNCHANGED captureVars
    /\ UNCHANGED fanVars

\* generate: mkdir or writeFile rejects; the catch block answers.
WizardWriteFails ==
    /\ pc = "wizard"
    /\ \E c \in wizardCalls :
         /\ wizardCalls' = wizardCalls \ {c}
         /\ WizardReplies("generate", c.session_id,
                          ErrorResult(WriteFailedText(WriteErrorText)))
    /\ UNCHANGED <<wizardStates, wizardPast>>
    /\ UNCHANGED <<machines, call, pc, netlog, result, received, environ, listed>>
    /\ UNCHANGED captureVars
    /\ UNCHANGED fanVars

\* generate: mkdir resolves and writeFile is called.
WizardMkdirDone ==
    /\ pc = "wizard"
    /\ \E c \in wizardCalls :
         /\ c.at = "mkdir"
         /\ [c EXCEPT !.at = "writeFile"] \notin wizardCalls
         /\ wizardCalls' = (wizardCalls \ {c}) \cup {[c EXCEPT !.at = "writeFile"]}
    /\ UNCHANGED <<wizardStates, wizardReply, wizardPast>>
    /\ UNCHANGED <<machines, call, pc, netlog, result, received, environ, listed>>
    /\ UNCHANGED captureVars
    /\ UNCHANGED fanVars

\* The state generate leaves once the file is written.
GeneratedState(state, expandedSavePath) ==
    [state EXCEPT !.generatedFile = expandedSavePath, !.step = "complete"]

\* generate: writeFile resolves; the file is recorded and the step is
\* "complete".
WizardWriteDone ==
    /\ pc = "wizard"
    /\ \E c \in wizardCalls :
         /\ c.at = "writeFile"
         /\ wizardCalls' = wizardCalls \ {c}
         /\ wizardStates' =
                [wizardStates EXCEPT
                   ![c.session_id] = GeneratedState(wizardStates[c.session_id],
                                                    c.expandedSavePath)]
         /\ wizardPast' = wizardPast \cup
                            {[session_id |-> c.session_id, action |-> "generate"]}
         /\ WizardReplies("generate", c.session_id,
                          WizardOk(GeneratedText(c.expandedSavePath,
                                                 c.expandedStoragePath)))
    /\ UNCHANGED <<machines, call, pc, netlog, result, received, environ, listed>>
    /\ UNCHANGED captureVars
    /\ UNCHANGED fanVars

\* action "status": the session is shown.
WizardStatus ==
    /\ pc = "wizard"
    /\ \E session_id \in SessionArgs :
         /\ HasSession(session_id)
         /\ WizardReplies("status", session_id,
                          WizardOk(StatusText(session_id, wizardStates[session_id])))
    /\ UNCHANGED <<wizardStates, wizardCalls, wizardPast>>
    /\ UNCHANGED <<machines, call, pc, netlog, result, received, environ, listed>>
    /\ UNCHANGED captureVars
    /\ UNCHANGED fanVars

WizardNext ==
    \/ WizardStart
    \/ WizardNoSession
    \/ WizardSetPath
    \/ WizardGenerate
    \/ WizardWriteFails
    \/ WizardMkdirDone
    \/ WizardWriteDone
    \/ WizardStatus

WizardSpec == WizardInit /\ [][WizardNext]_vars

(***************************************************************************)
(* Properties of get_clipboard_result and trigger_and_capture              *)
(***************************************************************************)

Found == findMachine(machines, call.machine) # 0

\* The requests getClipboardResult sent: those after the target trigger of
\* trigger_and_capture.
CaptureRequests ==
    IF call.tool = "trigger_and_capture" THEN SubSeq(netlog, 2, Len(netlog)) ELSE netlog

\* getClipboardResult has been called.
CaptureEntered == clip # None \/ pc \in {"export_wait", "polling", "reading"}

TargetFailed == targetResult # None /\ ~targetResult.success

ExportFailed == exportResult # None /\ ~exportResult.success

IsConfigMissing(r) ==
    /\ r # None
    /\ ~r.success
    /\ r.message = "Clipboard capture not configured for machine \"" \o Selected.name
                   \o "\"." \o ConfigMissingInstructions

OwnText == TextPath(SharedDir, requestId)

OwnImage == ImagePath(SharedDir, requestId)

\* C1: in trigger_and_capture, once the trigger of the target macro has
\* returned a failure, the handler has returned that failure and nothing
\* else was done: one request in all, no token, no poll, no read, no capture.
C1_FailedTargetStops ==
    (call.tool = "trigger_and_capture" /\ TargetFailed) =>
        /\ pc = "done"
        /\ result = [content |-> <<[type |-> "text",
                                    text |-> "Failed to trigger macro: "
                                             \o targetResult.message]>>,
                     isError |-> TRUE]
        /\ Len(netlog) = 1
        /\ netlog[1].macro = call.macro
        /\ requestId = Undefined
        /\ polled = {}
        /\ reads = <<>>
        /\ clip = None

C1_Witness ==
    /\ pc = "done"
    /\ call.tool = "trigger_and_capture"
    /\ TargetFailed
    /\ targetResult.message = "Access denied for Studio. The macro may not exist or may not be enabled."

C3_NoRequestBeforeConfigMissing ==
    (pc = "done" /\ IsConfigMissing(clip)) => netlog = <<>>

\* C3: an operation that ends with the configuration-missing outcome made
\* no export trigger, poll or read; get_clipboard_result sent no request at
\* all, trigger_and_capture sent the target trigger, which succeeded, and
\* nothing else.
C3_ConfigMissingRequests ==
    (pc = "done" /\ IsConfigMissing(clip)) =>
        /\ requestId = Undefined
        /\ polled = {}
        /\ reads = <<>>
        /\ exportResult = None
        /\ IF call.tool = "get_clipboard_result"
           THEN netlog = <<>>
           ELSE /\ Len(netlog) = 1
                /\ netlog[1].macro = call.macro
                /\ netlog[1].value = call.value
                /\ targetResult # None
                /\ targetResult.success

C3_Witness ==
    /\ pc = "done"
    /\ call.tool = "trigger_and_capture"
    /\ IsConfigMissing(clip)
    /\ Len(netlog) = 1

\* C4: once the export trigger has returned a failure, getClipboardResult
\* has returned the failure whose message is the capture prefix followed by
\* the trigger's message, and no path was polled or read.
C4_ExportFailurePropagated ==
    ExportFailed =>
        /\ pc = "done"
        /\ clip = [success |-> FALSE,
                   message |-> "Failed to trigger Save Clipboard macro: "
                               \o exportResult.message]
        /\ \E resp \in Responses :
               exportResult = TriggerOutcome(Selected, CaptureRequests[1].macro, resp)
        /\ \A w \in Waiters : wpc[w] = "idle"
        /\ polled = {}
        /\ reads = <<>>

C4_Witness ==
    /\ pc = "done"
    /\ ExportFailed
    /\ clip # None
    /\ clip.message = "Failed to trigger Save Clipboard macro: Authentication failed for Studio. Check username/password."

BothNotFound ==
    /\ pc = "done"
    /\ exportResult # None
    /\ exportResult.success
    /\ \A w \in Waiters : ~wfound[w]

\* C5: after a successful export trigger the handler always returns; no
\* path is polled once 3000 ms have passed since its waitForFile began; and
\* when neither poll found its file, both deadlines have passed and the
\* result is the failure whose message names both expected paths.
C5_PollingTerminates ==
    /\ (pc = "polling") ~> (pc = "done")
    /\ [](\A w \in Waiters : wpc[w] = "access" => now - wstart[w] < 3000)
    /\ [](\A w \in Waiters : wpc[w] = "sleep" => wwake[w] = now + 100 \/ wwake[w] <= now)
    /\ [](BothNotFound =>
            /\ \A w \in Waiters : now - wstart[w] >= 3000
            /\ clip = [success |-> FALSE,
                       message |-> "Clipboard save file not found. Expected: "
                                   \o SharedDir \o "/clipsav_" \o requestId \o ".txt or "
                                   \o SharedDir \o "/clipsav_" \o requestId
                                   \o ".png. Make sure the \"Save Clipboard to File\" macro is installed and the outputDir is configured correctly."]
            /\ polled = {OwnText, OwnImage}
            /\ reads = <<>>)

C5_Witness ==
    /\ BothNotFound
    /\ call.tool = "trigger_and_capture"
    /\ \A p \in {OwnText, OwnImage} : fs[p].state = "absent"

\* The base64 text of the image contents of the model (RFC 4648).
KnownBase64(data) ==
    CASE data = <<137, 80, 78, 71, 13>> -> "iVBORw0="

\* C6: a success result of getClipboardResult has exactly the fields
\* success, message, type, content and filePath, and a failure result only
\* success and message; when the image poll found its file the success is
\* type image with the base64 of the .png file's bytes and the .png path,
\* otherwise the text poll found its file and the success is type text with
\* the .txt file's text and the .txt path.
C6_ResultByFoundPath ==
    clip # None =>
        IF clip.success
        THEN /\ DOMAIN clip = {"success", "message", "type", "content", "filePath"}
             /\ IF wfound["image"]
                THEN /\ clip.type = "image"
                     /\ clip.filePath = OwnImage
                     /\ clip.content = KnownBase64(fs[OwnImage].data)
                ELSE /\ wfound["text"]
                     /\ clip.type = "text"
                     /\ clip.filePath = OwnText
                     /\ fs[OwnText].data = <<104, 105, 195>>
                     /\ clip.content = "hi\\uFFFD"
        ELSE DOMAIN clip = {"success", "message"}

C6_Witness ==
    /\ pc = "done"
    /\ clip # None
    /\ clip.success
    /\ clip.type = "image"
    /\ clip.content = "iVBORw0="
    /\ ~wfound["text"]

BothFound == wfound["text"] /\ wfound["image"]

\* C7 as claimed: when the export trigger succeeded and both files of the run
\* became readable while the polling window was open (and stayed so), the
\* result is the image result.
C7_BothReadableGivesImage ==
    (pc = "done" /\ exportResult # None /\ exportResult.success
       /\ fs[OwnText].state = "readable" /\ fs[OwnImage].state = "readable") =>
        /\ clip.success
        /\ clip.type = "image"
        /\ clip.filePath = OwnImage

\* C7: when the polls of both paths found their file, in either order, only
\* the .png file is read and the result is never the text result: it is the
\* image result, or the image read failure when that read fails.
C7_BothFoundReadsImage ==
    (BothFound /\ pc \in {"reading", "done"}) =>
        /\ reads = <<OwnImage>>
        /\ pc = "done" =>
             IF fs[OwnImage].state = "readable"
             THEN clip.success /\ clip.type = "image" /\ clip.filePath = OwnImage
             ELSE ~clip.success /\ clip.message = "Failed to read image file: " \o ReadErrorText

C7_Witness ==
    /\ pc = "done"
    /\ BothFound
    /\ clip.success
    /\ clip.type = "image"
    /\ fs[OwnText].state = "readable"

\* The read of the detected file failed.
ReadHasFailed ==
    /\ pc = "done"
    /\ reads # <<>>
    /\ fs[reads[1]].state # "readable"

\* C8: when the read of a file a poll had found fails, the result is a
\* read failure, which is neither the timeout failure nor a trigger failure;
\* at most one file is ever read, and once the read has begun no path is
\* polled and no second read is made.
C8_ReadFailureNotRetried ==
    /\ [](Len(reads) <= 1)
    /\ [](ReadHasFailed =>
            /\ ~clip.success
            /\ clip.message =
                 (IF reads[1] = OwnImage THEN "Failed to read image file: "
                  ELSE "Failed to read text file: ") \o ReadErrorText
            /\ clip # TimeoutResult(OwnText, OwnImage)
            /\ \A resp \in Responses :
                 clip.message # CapturePrefix
                                \o TriggerOutcome(Selected, ExportMacro(Selected), resp).message)
    /\ [][pc = "reading" => (polled' = polled /\ wpc' = wpc /\ reads' = reads)]_vars

C8_Witness ==
    /\ ReadHasFailed
    /\ reads = <<OwnImage>>
    /\ wfound["text"]
    /\ fs[OwnText].state = "readable"
    /\ ~clip.success

(***************************************************************************)
(* Properties of trigger_macro_on_all                                      *)
(***************************************************************************)

FanReturned == pc = "done" /\ Len(machines) > 0

\* The report line of machine i for its response resp.
ReportLine(i, resp) ==
    machines[i].name \o ": "
    \o (CASE resp.kind = "error" ->
               "Failed to connect to " \o machines[i].name \o " (" \o machines[i].host
               \o ":4490): " \o resp.body
          [] resp.kind = "http" /\ resp.status = 200 ->
               "Macro \"" \o call.macro \o "\" triggered successfully on " \o machines[i].name
          [] resp.kind = "http" /\ resp.status = 403 ->
               "Access denied for " \o machines[i].name
               \o ". The macro may not exist or may not be enabled.")

\* The report text with one line per machine, for the responses rs.
RECURSIVE ReportText(_, _)
ReportText(rs, i) ==
    IF i > Len(rs) THEN ""
    ELSE ReportLine(i, rs[i]) \o (IF i < Len(rs) THEN "\n" ELSE "") \o ReportText(rs, i + 1)

\* C9: when trigger_macro_on_all returns on a non-empty registry, one call
\* was made per machine, in registry order, and the report has one line per
\* machine, in registry order, line i naming machine i with the outcome of
\* the call made to machine i, in whatever order the calls completed.
C9_ReportsInRegistryOrder ==
    FanReturned =>
        /\ Len(netlog) = Len(machines)
        /\ \A i \in 1..Len(machines) :
             netlog[i].machine = machines[i].name /\ netlog[i].host = machines[i].host
        /\ Len(outcomes) = Len(machines)
        /\ \E rs \in SeqsOfLen(FanResponses, Len(machines)) :
             /\ \A i \in 1..Len(machines) :
                  outcomes[i] = TriggerOutcome(machines[i], call.macro, rs[i])
             /\ result.content = <<[type |-> "text", text |-> ReportText(rs, 1)]>>

C9_Witness ==
    /\ FanReturned
    /\ machines = <<Studio, Laptop, Studio>>
    /\ completed = <<3, 1, 2>>
    /\ outcomes[1].success
    /\ ~outcomes[2].success
    /\ ~outcomes[3].success

\* C10: when trigger_macro_on_all returns on a non-empty registry, the call
\* to every machine has completed with an outcome of its own, and the
\* result is an error exactly when some machine's outcome is a failure.
C10_JoinsAllCalls ==
    FanReturned =>
        /\ Len(netlog) = Len(machines)
        /\ Len(completed) = Len(machines)
        /\ \A i \in 1..Len(machines) :
             /\ \E k \in 1..Len(completed) : completed[k] = i
             /\ outcomes[i] # None
             /\ \E resp \in FanResponses :
                  outcomes[i] = TriggerOutcome(machines[i], call.macro, resp)
        /\ "thrown" \notin DOMAIN result
        /\ result.isError = (\E i \in 1..Len(machines) : ~outcomes[i].success)

C10_Witness ==
    /\ FanReturned
    /\ Len(machines) = 3
    /\ completed[1] = 2
    /\ outcomes[1].success
    /\ outcomes[2].message = "Failed to connect to Laptop (10.0.0.3:4490): ECONNREFUSED"
    /\ outcomes[3].success
    /\ result.isError

(***************************************************************************)
(* Properties of trigger_macro, list_macros and fetchUrl                   *)
(***************************************************************************)

\* trigger_macro has returned after its triggerMacro call settled.
TriggerReturned ==
    pc = "done" /\ call.tool = "trigger_macro" /\ Found /\ received # None

\* C11: the outcome of triggerMacro is decided by the response alone, case
\* by case: a 2xx status gives success with result = the body, or no result
\* for an empty body; 401 gives the authentication failure; 403 gives the
\* access-denied failure and not the authentication one; any other status
\* gives the HTTP failure naming the status; a rejected fetch gives the
\* connection failure naming host and port.
C11_OutcomeByResponse ==
    TriggerReturned =>
        LET o == targetResult
            r == received
            m == Selected
            authFailed == "Authentication failed for " \o m.name
                          \o ". Check username/password."
        IN /\ r.kind = "http" /\ r.status \in 200..299 =>
                /\ o.success
                /\ DOMAIN o = {"success", "message", "result"}
                /\ o.message = "Macro \"" \o call.macro \o "\" triggered successfully on "
                               \o m.name
                /\ r.body # "" => o.result = r.body
                /\ r.body = "" => o.result = Undefined
           /\ r.kind = "http" /\ r.status = 401 =>
                /\ ~o.success
                /\ DOMAIN o = {"success", "message"}
                /\ o.message = authFailed
           /\ r.kind = "http" /\ r.status = 403 =>
                /\ ~o.success
                /\ DOMAIN o = {"success", "message"}
                /\ o.message = "Access denied for " \o m.name
                               \o ". The macro may not exist or may not be enabled."
                /\ o.message # authFailed
           /\ r.kind = "http" /\ r.status \notin (200..299) \cup {401, 403} =>
                /\ ~o.success
                /\ DOMAIN o = {"success", "message"}
                /\ o.message = "Failed to trigger macro on " \o m.name \o ": HTTP "
                               \o ToString(r.status)
           /\ r.kind = "error" =>
                /\ ~o.success
                /\ DOMAIN o = {"success", "message"}
                /\ o.message = "Failed to connect to " \o m.name \o " (" \o m.host \o ":"
                               \o ToString(m.port) \o "): " \o r.body

\* A 299 response with a body has been turned into a success carrying it.
C11_Witness ==
    /\ TriggerReturned
    /\ received.kind = "http"
    /\ received.status = 299
    /\ received.body = "42"
    /\ targetResult.success
    /\ targetResult.result = "42"

\* C12: every operation ends with a returned, structured result and never
\* with a raised error; fetchUrl whose fetch was rejected returns the
\* connection-failure outcome.
C12_NeverRaises ==
    pc = "done" =>
        /\ ~IsRejected(result)
        /\ (call.tool = "fetchUrl" /\ received # None /\ received.kind = "error") =>
               result = ConnectFailure(Selected, received.body)

\* fetchUrl ended with the error of its rejected fetch.
C12_Witness ==
    /\ pc = "done"
    /\ call.tool = "fetchUrl"
    /\ received # None
    /\ received.kind = "error"
    /\ IsRejected(result)
    /\ result.error = received.body

\* The Basic header of the credentials the registries hold, from RFC 4648
\* encodings worked out by hand.
KnownBasic(m) ==
    CASE m.username = "km" /\ m.password = "secret" -> "Basic a206c2VjcmV0"
      [] m.username = "admin" /\ m.password = "pw" -> "Basic YWRtaW46cHc="
      [] OTHER -> "?"

\* Request r is addressed to the encrypted endpoint of machine m with m's
\* credentials.
EncryptedFor(r, m) ==
    /\ r.machine = m.name
    /\ r.scheme = "https"
    /\ r.host = m.host
    /\ r.port = m.port + 1
    /\ r.port # m.port
    /\ r.authorization = KnownBasic(m)
    /\ r.url = "https://" \o m.host \o ":" \o ToString(m.port + 1) \o r.path
               \o (IF Has(r, "macro") THEN "?" \o QueryString(r.macro, r.value) ELSE "")

MachineAddressed ==
    call.tool \in {"list_macros", "trigger_macro", "get_clipboard_result",
                   "trigger_and_capture"}

\* Some record of the registry has the called name, compared in lower case.
NameMatches ==
    \E k \in 1..Len(machines) : ToLowerCase(machines[k].name) = ToLowerCase(call.machine)

\* The handler answered with an error and sent nothing.
NotFoundAnswer ==
    /\ netlog = <<>>
    /\ pc = "done" => Has(result, "isError") /\ result.isError
    /\ pc # "done" => pc = "start"

\* With supplied telling whether the call names a machine: an unmatched
\* name, and no name on an empty registry, end in the not-found error with
\* no request sent; a request goes to the first machine without its name
\* matching only when no name was supplied.
NotFoundWhenUnmatched(supplied) ==
    MachineAddressed =>
        /\ (supplied /\ ~NameMatches) => NotFoundAnswer
        /\ (~supplied /\ Len(machines) = 0) => NotFoundAnswer
        /\ (netlog # <<>> /\ supplied) => NameMatches

\* C14: a supplied machine name that matches no record (case-insensitively)
\* gives the not-found error and no request; the first machine is selected
\* only when no name is supplied; no name on an empty registry gives
\* not-found.  A name is supplied when the argument is present.
C14_UnmatchedNameNotFound == NotFoundWhenUnmatched(call.machine # Undefined)

\* trigger_macro was called with the empty string as machine name, which no
\* record carries, and the request went to the first machine.
C14_Witness ==
    /\ call.tool = "trigger_macro"
    /\ call.machine = ""
    /\ ~NameMatches
    /\ Len(netlog) = 1
    /\ netlog[1].host = machines[1].host

(***************************************************************************)
(* Properties of getMachines                                               *)
(***************************************************************************)

Loaded == pc # "boot" /\ environ # None

\* The registry getMachines returns for this KM_MACHINES is the same
\* whatever the flat fields are.
SameForEveryFlat ==
    \A flat \in FlatEnvs : getMachines(EnvOf(environ.KM_MACHINES, flat)) = machines

\* C15 as stated: whenever KM_MACHINES is set, the registry depends on it
\* alone; environments that differ only in the flat fields give the same
\* registry.
C15_ListFormAlone ==
    (Loaded /\ environ.KM_MACHINES.kind # "unset") => SameForEveryFlat

\* C15: whenever KM_MACHINES is set to a non-empty text, well-formed or not,
\* the registry depends on it alone; a KM_MACHINES set to the empty string is
\* taken as not set, and the registry is the one of the flat fields.
C15_NonEmptyListFormAlone ==
    Loaded =>
        /\ ~EnvFalsy(environ.KM_MACHINES) => SameForEveryFlat
        /\ environ.KM_MACHINES.kind = "invalid" => machines = <<>>
        /\ EnvFalsy(environ.KM_MACHINES) => machines = FlatMachines(environ)

\* A malformed list with flat fields that describe a valid machine was
\* loaded as the empty registry.
C15_Witness ==
    /\ Loaded
    /\ environ.KM_MACHINES = EnvNotJson
    /\ FlatMachines(environ) # <<>>
    /\ machines = <<>>

\* The KM_MACHINES text is a malformed list: no JSON, JSON that is no array,
\* or an array with an element that is no object (null, a number).
MalformedList ==
    \/ environ.KM_MACHINES.kind = "invalid"
    \/ /\ environ.KM_MACHINES.kind = "json"
       /\ \/ ~IsArray(environ.KM_MACHINES.value)
          \/ /\ IsArray(environ.KM_MACHINES.value)
             /\ \E i \in 1..Len(environ.KM_MACHINES.value.items) :
                    environ.KM_MACHINES.value.items[i].type # "object"

\* C16: for every malformed list input (not valid JSON, not an array, or an
\* array holding an element that is not an object) getMachines returns the
\* empty registry.
C16_MalformedGivesEmpty == (Loaded /\ MalformedList) => machines = <<>>

\* The array [5] was loaded as a registry of one machine named "unnamed"
\* that has no host and no credentials.
C16_Witness ==
    /\ Loaded
    /\ environ.KM_MACHINES = EnvJson(JArray(<<JNumber(5)>>))
    /\ Len(machines) = 1
    /\ machines[1].name = "unnamed"
    /\ machines[1].host = Undefined
    /\ machines[1].username = Undefined

\* KM_MACHINES is a JSON array of well-formed machine objects.
WellFormedList ==
    /\ environ.KM_MACHINES.kind = "json"
    /\ IsArray(environ.KM_MACHINES.value)
    /\ \A i \in 1..Len(environ.KM_MACHINES.value.items) :
           environ.KM_MACHINES.value.items[i] \in WellFormedElements

\* C17: for a JSON array of well-formed machine objects the registry has the
\* length of the array and record i is built from element i: its name, host
\* and credentials, the port and secure it gives, 4490 for an omitted port
\* and false for an omitted secure.
C17_OrderAndDefaults ==
    (Loaded /\ WellFormedList) =>
        LET items == environ.KM_MACHINES.value.items IN
        /\ Len(machines) = Len(items)
        /\ \A i \in 1..Len(items) :
               LET f == items[i].fields
                   r == machines[i]
               IN /\ r.name = f.name
                  /\ r.host = f.host
                  /\ r.username = f.username
                  /\ r.password = f.password
                  /\ r.port = (IF Has(f, "port") THEN f.port ELSE 4490)
                  /\ r.secure = (IF Has(f, "secure") THEN f.secure ELSE FALSE)

\* An array of two objects whose names differ in case only, the second
\* without port and secure, was loaded in input order.
C17_Witness ==
    /\ Loaded
    /\ environ.KM_MACHINES = EnvJson(JArray(<<SecureElement, PlainElement>>))
    /\ Len(machines) = 2
    /\ machines[1].name = "studio"
    /\ machines[1].port = 8080
    /\ machines[1].secure
    /\ machines[2].name = "Studio"
    /\ machines[2].port = 4490
    /\ ~machines[2].secure

\* C18: the names of a loaded registry are pairwise distinct when compared
\* in lower case, so that a lookup by name matches at most one record.
C18_NamesDistinct ==
    Loaded =>
        \A i, j \in 1..Len(machines) :
            i # j => ToLowerCase(machines[i].name) # ToLowerCase(machines[j].name)

\* A registry with the names "studio" and "Studio" was loaded; the lookup of
\* "STUDIO" matched both records and returned the first.
C18_Witness ==
    /\ pc = "looked_up"
    /\ call.machine = "STUDIO"
    /\ Len(machines) = 2
    /\ machines[1].name = "studio"
    /\ machines[2].name = "Studio"
    /\ machines[1].host # machines[2].host
    /\ result.index = 1

(***************************************************************************)
(* Properties of overlapping captures                                      *)
(*                                                                         *)
(* A getClipboardResult run keeps its token and paths in local variables;  *)
(* what it shares with another run is the folder.  The other run is        *)
(* therefore present in CaptureSpec as the file the remote host writes for *)
(* the other token while this run is under way.                            *)
(***************************************************************************)

\* The two paths built from this run's token.
OwnPaths == {PathOf(w, Selected.outputDir, requestId) : w \in Waiters}

\* A file written for the other run's token is readable.
ForeignFileReadable ==
    \E p \in AllPaths : TokenOfPath(p) # requestId /\ fs[p].state = "readable"

TriggerSent == call.tool = "trigger_macro" /\ Len(netlog) = 1

\* The URL of a trigger request of the selected machine with this query.
ActionUrl(query) ==
    "https://" \o Selected.host \o ":" \o ToString(Selected.port + 1)
    \o "/authenticatedaction.html?" \o query

\* C20 as stated: the request carries a value parameter exactly when the
\* caller supplied a value, the empty string included, and the parameter is
\* the supplied string.
C20_ValueForwarded ==
    TriggerSent =>
        /\ (netlog[1].value # Undefined) <=> (call.value # Undefined)
        /\ call.value # Undefined => netlog[1].value = call.value

\* C20: the request carries a value parameter exactly when the caller
\* supplied a non-empty value, and the parameter is the supplied string,
\* form-encoded in the URL; an absent and an empty value give a URL with
\* the macro parameter alone.
C20_NonEmptyValueForwarded ==
    TriggerSent =>
        /\ (netlog[1].value # Undefined) <=> (call.value \notin {Undefined, ""})
        /\ call.value \notin {Undefined, ""} => netlog[1].value = call.value
        /\ call.value = "a&b=c d" =>
               netlog[1].url = ActionUrl("macro=Take+Screenshot&value=a%26b%3Dc+d")
        /\ call.value \in {Undefined, ""} =>
               netlog[1].url = ActionUrl("macro=Take+Screenshot")

\* A value holding "&", "=" and a space was forwarded.
C20_Witness ==
    /\ TriggerSent
    /\ call.value = "a&b=c d"
    /\ netlog[1].value = "a&b=c d"
    /\ netlog[1].macro = "Take Screenshot"

(***************************************************************************)
(* Properties of the catalog listMacros returns                            *)
(***************************************************************************)

\* list_macros returned for a page listMacros parsed.
ListedPage == pc = "done" /\ call.tool = "list_macros" /\ listed # None /\ listed.success

\* The part of the received page listMacros reads.
Section == HtmlToParse(received.body)

\* The index of the group that is open at tag i of the section, 0 when no
\* group is.
Enclosing(i) ==
    LET open == {j \in 1..(i - 1) :
                   /\ Section[j].t = "optgroup"
                   /\ \A k \in (j + 1)..(i - 1) : Section[k].t # "/optgroup"}
    IN IF open = {} THEN 0 ELSE CHOOSE j \in open : \A k \in open : k <= j

\* Tag i is an option with a label inside a labelled, closed group.
IsOption(i) ==
    /\ Section[i].t = "option"
    /\ Has(Section[i], "label")
    /\ Enclosing(i) # 0
    /\ Has(Section[Enclosing(i)], "label")
    /\ \E k \in (i + 1)..Len(Section) : Section[k].t = "/optgroup"

\* The option lacks a value, or its name is empty once trimmed and decoded.
LeftOut(i) ==
    \/ ~Has(Section[i], "value")
    \/ Section[i].value = ""
    \/ decodeHtmlEntities(Trim(Section[i].label)) = <<>>

\* The entry of option i.
EntryOf(i) ==
    [name |-> decodeHtmlEntities(Trim(Section[i].label)),
     uid |-> Section[i].value,
     group |-> decodeHtmlEntities(Trim(Section[Enclosing(i)].label))]

\* The indexes of the options that are not left out.
KeptOptions == {i \in 1..Len(Section) : IsOption(i) /\ ~LeftOut(i)}

\* C21: every entry listMacros returns on success has a non-empty decoded
\* name, a non-empty uid and the label of its enclosing group; an option
\* without a value attribute, or with a name that is empty after trimming
\* and decoding, is left out, and the other options of the page are returned
\* in document order.
C21_EntriesWellFormedInOrder ==
    ListedPage =>
        /\ \A e \in 1..Len(listed.macros) :
               /\ Len(listed.macros[e].name) > 0
               /\ listed.macros[e].uid # ""
        /\ Len(listed.macros) = Cardinality(KeptOptions)
        /\ \A e \in 1..Len(listed.macros) :
               \E i \in KeptOptions :
                   /\ Cardinality({j \in KeptOptions : j < i}) = e - 1
                   /\ listed.macros[e] = EntryOf(i)

\* A page with options left out between two options that are returned.
C21_Witness ==
    /\ ListedPage
    /\ received.body = RaggedPage
    /\ \E i \in 1..Len(Section) : IsOption(i) /\ ~Has(Section[i], "value")
    /\ \E i \in 1..Len(Section) :
           IsOption(i) /\ Has(Section[i], "value") /\ Trim(Section[i].label) = <<>>
    /\ Len(listed.macros) = 2
    /\ listed.macros[1].uid = "U9"
    /\ listed.macros[2].uid = "U6"

(***************************************************************************)
(* Properties of the join of the two polls                                 *)
(***************************************************************************)

\* The waitForFile call w has returned true.
PollFound(w) == wpc[w] = "done" /\ wfound[w]

\* C22: the two polls are joined as first success or both timed out: once
\* the poll of either path has found its file, the capture goes on to read
\* and return without waiting for the poll of the other path (no time passes
\* in the polling phase after a poll has found its file), and no poll is
\* still running when the capture has returned.
C22_FirstSuccessOrBothTimeout ==
    [][/\ (pc = "polling" /\ \E w \in Waiters : PollFound(w)) => now' = now
       /\ pc' = "done" => \A w \in Waiters : wpc'[w] \in {"idle", "done"}]_vars

\* The text file was found at once and the capture is still waiting, a poll
\* interval later, for the poll of the image path.
C22_Witness ==
    /\ pc = "polling"
    /\ PollFound("text")
    /\ wpc["image"] = "sleep"
    /\ now >= wstart["image"] + PollIntervalMs
    /\ fs[OwnPath("image")].state = "absent"

(***************************************************************************)
(* Properties of the capture token                                         *)
(***************************************************************************)

\* The two paths of a token under a folder, written out.
TokenPaths(dir, token) ==
    {dir \o "/clipsav_" \o token \o ".txt", dir \o "/clipsav_" \o token \o ".png"}

\* The one token of the run is the value of its export trigger and the
\* token of every path it polls, reads or names.
TokenUsedThroughout ==
    /\ requestId \in Tokens
    /\ Len(CaptureRequests) = 1
    /\ CaptureRequests[1].value = requestId
    /\ CaptureRequests[1].url =
           "https://" \o Selected.host \o ":" \o ToString(Selected.port + 1)
           \o "/authenticatedaction.html?macro=" \o ExportMacro(Selected)
           \o "&value=" \o requestId
    /\ polled \subseteq TokenPaths(Selected.outputDir, requestId)
    /\ \A i \in 1..Len(reads) : reads[i] \in TokenPaths(Selected.outputDir, requestId)
    /\ (pc = "reading" \/ (pc = "done" /\ exportResult.success)) =>
           polled = TokenPaths(Selected.outputDir, requestId)
    /\ (clip # None /\ clip.success) =>
           clip.filePath \in TokenPaths(Selected.outputDir, requestId)

\* C23: within one capture run a single token is generated once; the value
\* passed to the export trigger, the token in the polled .txt path and the
\* token in the polled .png path are that same string, unchanged, and the
\* paths are outputDir joined with clipsav_<token>.txt and
\* clipsav_<token>.png.
C23_OneTokenThroughout ==
    [][/\ requestId # Undefined => requestId' = requestId
       /\ requestId' # Undefined => TokenUsedThroughout']_vars

\* A run that sent its export trigger, polled both paths and read a file.
C23_Witness ==
    /\ pc = "done"
    /\ requestId \in Tokens
    /\ CaptureRequests[1].value = requestId
    /\ polled = TokenPaths(SharedDir, requestId)
    /\ Len(reads) = 1
    /\ clip.success

(***************************************************************************)
(* Properties of the order of trigger_and_capture                          *)
(***************************************************************************)

\* The settle delay the caller asked for.
SettleDelay == IF call.delay = NoDelay THEN 500 ELSE call.delay

\* How far the run has got: 1 target trigger sent, 2 its response received,
\* 3 export trigger sent, 4 polling, 5 reading a file.
Stage ==
    IF reads # <<>> THEN 5
    ELSE IF polled # {} \/ pc = "polling" THEN 4
    ELSE IF Len(netlog) >= 2 THEN 3
    ELSE IF targetResult # None THEN 2
    ELSE IF Len(netlog) = 1 THEN 1
    ELSE 0

\* C24: in a trigger_and_capture run whose target trigger succeeds the
\* events come in this order: the target trigger's response, the settle
\* delay (the caller's delay, 500 ms when none is given, a delay of 0 taken
\* as 0), the export trigger, the polling, the file read.  Each step moves
\* the run on by at most one stage, the timer set on the response is the
\* settle delay, and the export trigger is sent only once it has elapsed.
C24_CaptureOrder ==
    [][call.tool = "trigger_and_capture" =>
         /\ Stage' \in {Stage, Stage + 1}
         /\ (Stage = 1 /\ Stage' = 2 /\ targetResult'.success) =>
                pc' = "settle" /\ timerAt' = now + SettleDelay
         /\ (Stage = 2 /\ Stage' = 3) =>
                /\ targetResult.success
                /\ now >= timerAt
                /\ netlog'[2].macro = ExportMacro(Selected)
         /\ Stage' >= 3 => now' >= SettleDelay]_vars

\* A run with a delay of 0 that sent its export trigger, polled and read
\* its file without any time passing.
C24_Witness ==
    /\ call.tool = "trigger_and_capture"
    /\ call.delay = 0
    /\ pc = "done"
    /\ Stage = 5
    /\ clip.success
    /\ now = 0

(***************************************************************************)
(* Properties of the connectivity outcome                                  *)
(***************************************************************************)

\* What listMacros or triggerMacro returned to the handler that has answered.
Outcome == IF call.tool = "list_macros" THEN listed ELSE targetResult

\* The error messages a failure of the model carries.
FailureTexts == {r.body : r \in TransportErrors} \cup {InvalidCodePointMessage}

\* The outcome is the connectivity outcome for the machine addressed.
IsConnectivity(o) ==
    /\ ~o.success
    /\ \E text \in FailureTexts :
           o.message = "Failed to connect to " \o Selected.name \o " (" \o Selected.host
                       \o ":" \o ToString(Selected.port) \o "): " \o text

\* C25: listMacros and triggerMacro return the connectivity outcome
\* ("Failed to connect to <machine> (<host>:<port>)") only when the request
\* itself failed at transport level; a failure after a 2xx response was
\* received (decoding a label with a numeric entity above the code-point
\* range) is not reported as a connectivity failure.
C25_ConnectivityOnlyForTransport ==
    (pc = "done" /\ call.tool \in {"list_macros", "trigger_macro"} /\ received # None) =>
        (IsConnectivity(Outcome) => received.kind = "error")

\* The machine answered 200 with a page whose label cannot be decoded, and
\* listMacros reports that it could not connect.
C25_Witness ==
    /\ pc = "done"
    /\ call.tool = "list_macros"
    /\ received # None
    /\ received.kind = "http"
    /\ received.status = 200
    /\ received.body = OverflowPage
    /\ IsConnectivity(listed)
    /\ result.isError

(***************************************************************************)
(* Properties of decodeHtmlEntities                                        *)
(***************************************************************************)

\* The named entities decodeHtmlEntities knows, with their characters.
NamedEntities ==
    {<<<<"&", "a", "m", "p", ";">>, "&">>, <<<<"&", "l", "t", ";">>, "<">>,
     <<<<"&", "g", "t", ";">>, ">">>, <<<<"&", "q", "u", "o", "t", ";">>, "\"">>,
     <<<<"&", "a", "p", "o", "s", ";">>, "'">>}

\* The length of the numeric reference at the front of cs in the given
\* base, 0 when there is none.
NumericAt(cs, lead, base) ==
    LET k == Len(lead)
        n == IF StartsWith(cs, lead) THEN DigitRun(SubSeq(cs, k + 1, Len(cs)), base) ELSE 0
    IN IF n > 0 /\ Len(cs) > k + n /\ cs[k + n + 1] = ";" THEN k + n + 1 ELSE 0

\* One pass over the text: the entity at the front, if any, is replaced by
\* its character, and the scan goes on after it; what was produced is not
\* looked at again.
RECURSIVE DecodeOnce(_)
DecodeOnce(cs) ==
    IF Len(cs) = 0 THEN <<>>
    ELSE LET d == NumericAt(cs, <<"&", "#">>, 10)
             h == NumericAt(cs, <<"&", "#", "x">>, 16)
         IN IF d > 0
            THEN <<FromCodePoint(ParseInt(SubSeq(cs, 3, d - 1), 10))>>
                 \o DecodeOnce(SubSeq(cs, d + 1, Len(cs)))
            ELSE IF h > 0
            THEN <<FromCodePoint(ParseInt(SubSeq(cs, 4, h - 1), 16))>>
                 \o DecodeOnce(SubSeq(cs, h + 1, Len(cs)))
            ELSE IF \E ne \in NamedEntities : StartsWith(cs, ne[1])
            THEN LET ne == CHOOSE x \in NamedEntities : StartsWith(cs, x[1])
                 IN <<ne[2]>> \o DecodeOnce(SubSeq(cs, Len(ne[1]) + 1, Len(cs)))
            ELSE <<cs[1]>> \o DecodeOnce(Tail(cs))

\* The labels of the options of the page that carry a label and a value.
OptionLabels ==
    {Trim(Section[i].label) : i \in {j \in 1..Len(Section) :
                                        IsOption(j) /\ Has(Section[j], "value")}}

\* C26: decodeHtmlEntities decodes every entity of its input exactly once;
\* text produced by decoding an entity is not decoded again, so the label
\* &amp;lt; gives the name &lt; and the label &#38;amp; gives &amp;.
C26_DecodedExactlyOnce ==
    (pc = "done" /\ call.tool = "list_macros" /\ received # None
     /\ received.kind = "http" /\ received.status = 200) =>
        \A label \in OptionLabels :
            ~DecodeThrows(label) => decodeHtmlEntities(label) = DecodeOnce(label)

\* list_macros returned the macros named "&lt;" and "&amp;" as "<" and "&".
C26_Witness ==
    /\ ListedPage
    /\ received.body = EscapedPage
    /\ Len(listed.macros) = 2
    /\ listed.macros[1].name = <<"<">>
    /\ listed.macros[2].name = <<"&">>

(***************************************************************************)
(* Properties of the fan-out over an empty registry                        *)
(***************************************************************************)

\* C27: trigger_macro_on_all on an empty registry sends no request and
\* answers with an error result (isError true), not with the success that
\* the conjunction over no outcomes would give.
C27_EmptyRegistryIsError ==
    (call.tool = "trigger_macro_on_all" /\ machines = <<>>) =>
        /\ netlog = <<>>
        /\ outcomes = <<>>
        /\ pc \in {"start", "done"}
        /\ pc = "done" =>
               /\ result.isError = TRUE
               /\ result.content = <<[type |-> "text", text |-> "No machines configured."]>>

\* The call on the empty registry has answered.
C27_Witness ==
    /\ call.tool = "trigger_macro_on_all"
    /\ machines = <<>>
    /\ pc = "done"
    /\ result.isError
    /\ netlog = <<>>

(***************************************************************************)
(* Properties of handleConfigWizard                                        *)
(***************************************************************************)

\* The step is the return of a wizard call.  (A call that returns what the
\* call before it returned leaves the sessions as that call left them.)
WizardReturned == wizardReply' # wizardReply

\* The call that returned was rejected: its result is an error.
Rejected(reply) == Has(reply.result, "isError") /\ reply.result.isError

\* The session_id of the call is not given or was issued by no start.
Unissued(reply) == Falsy(reply.session_id) \/ reply.session_id \notin DOMAIN wizardStates

Generated(reply) == reply.action = "generate" /\ ~Rejected(reply)

\* Step "start" has no storage path; steps "path" and "complete" have one.
PathMatchesStep(state) ==
    /\ state.step \in {"start", "path", "complete"}
    /\ state.step = "start" => state.filePath = NoText
    /\ state.step \in {"path", "complete"} =>
           /\ ~Absent(state.filePath)
           /\ validatePath(state.filePath).valid

\* C29: a generate call succeeds (writes the macros file and moves the
\* session to step "complete") only in a session in which an earlier
\* set_path call succeeded; after any sequence of calls a session with step
\* "start" has no storage path and a session with step "path" or "complete"
\* has one.
C29_GenerateNeedsPath ==
    [][/\ (WizardReturned /\ Generated(wizardReply')) =>
            /\ [session_id |-> wizardReply'.session_id, action |-> "set_path"]
                   \in wizardPast
            /\ wizardStates'[wizardReply'.session_id].step = "complete"
            /\ ~Absent(wizardStates'[wizardReply'.session_id].generatedFile)
       /\ \A id \in DOMAIN wizardStates' : PathMatchesStep(wizardStates'[id])]_vars

\* A session whose generate call succeeded after its set_path call, beside a
\* session that was only started.
C29_Witness ==
    /\ Cardinality(DOMAIN wizardStates) = 2
    /\ wizardStates[SessionPool[1]].step = "complete"
    /\ wizardStates[SessionPool[1]].generatedFile = DefaultSavePath
    /\ wizardStates[SessionPool[2]].step = "start"
    /\ Generated(wizardReply)
    /\ wizardPast = {[session_id |-> SessionPool[1], action |-> "set_path"],
                     [session_id |-> SessionPool[1], action |-> "generate"]}

\* The place of a step in the order start, path, complete.
StepRank(step) == CASE step = "start" -> 1 [] step = "path" -> 2 [] step = "complete" -> 3

\* C30: the step of a session never moves backward (start, then path, then
\* complete) and generatedFile is set exactly when the step is "complete";
\* a set_path call after a generate call that succeeded does not leave a
\* session with step "path" that still records a generated file.
C30_StepsForwardOnly ==
    [][\A id \in DOMAIN wizardStates :
         /\ StepRank(wizardStates'[id].step) >= StepRank(wizardStates[id].step)
         /\ ~Absent(wizardStates'[id].generatedFile)
                <=> wizardStates'[id].step = "complete"]_vars

\* set_path after a generate call that succeeded: the session is back at
\* step "path", with a new storage path and the file generated for the old
\* one.
C30_Witness ==
    /\ wizardReply # None
    /\ wizardReply.action = "set_path"
    /\ ~Rejected(wizardReply)
    /\ wizardReply.session_id = SessionPool[1]
    /\ wizardStates[SessionPool[1]].step = "path"
    /\ wizardStates[SessionPool[1]].filePath = <<"~", "/", "Documents", "/", "KM">>
    /\ wizardStates[SessionPool[1]].generatedFile = DefaultSavePath
    /\ wizardCalls = {}

====
